---- MODULE Spec2Model ----
(***************************************************************************)
(* NightDriver-Pi: the timestamped LED frame ring (LEDBufferManager), the  *)
(* socket server that fills it (SocketServer) and the draw loop that       *)
(* empties it (MatrixDraw::RunDrawLoop).                                    *)
(*                                                                         *)
(* Three specifications share the variables of this module:                *)
(*   BufferSpec    LEDBufferManager driven by arbitrary Push/Pop calls     *)
(*   Spec          the program: Listener thread, Pacer thread, the clock   *)
(*                 and the ring under its recursive mutex                  *)
(*   ListenerSpec  the per-connection read loop of the socket server       *)
(***************************************************************************)
EXTENDS Integers, Sequences, FiniteSets, TLC

\* ------------------------------------------------------------------ bounds

\* largest ring size (cBuffers) the constructor is given in BufferSpec
MaxCapacity == 3
\* number of LEDBufferManager calls recorded in BufferSpec
MaxCalls == 6
\* ring size the program builds its manager with (kMaxBuffers, scaled down)
MaxBuffers == 3
\* frames the producer sends in Spec
MaxFrames == 3
\* clock readings: 0, TickMicros, ..., MaxClock * TickMicros
MaxClock == 1
\* matrix->width() and matrix->height()
MatrixWidth == 3
MatrixHeight == 3
\* packets the peers send, over all connections
MaxPackets == 2
\* connections the Listener accepts
MaxConnections == 2
\* length of the first segment when the network delivers a read in two
SegmentBytes == 11

\* ------------------------------------------------------- program constants

\* maxLEDs = matrix->width() * matrix->height()
MaxLEDs == MatrixWidth * MatrixHeight

MICROS_PER_SECOND == 1000000

WIFI_COMMAND_PIXELDATA64 == 3
WIFI_COMMAND_PEAKDATA == 4

STANDARD_DATA_HEADER_SIZE == 24
COMPRESSED_HEADER_SIZE == 16
\* sizeof(CRGB)
LED_DATA_SIZE == 3

\* 0x44415645
COMPRESSED_HEADER_TAG == 1145132613

\* RunDrawLoop's longest sleep, in microseconds
kMaximumWait == 40000

\* microseconds between two readings of the model's clock
TickMicros == kMaximumWait \div 2

\* the "never due" age of an empty manager (larger than any age in microseconds;
\* the largest integer the checker computes with)
MAXDOUBLE == 2147483647

Range(s) == {s[i] : i \in 1..Len(s)}

\* std::min
Min(a, b) == IF a < b THEN a ELSE b

\* ------------------------------------------------------------------ frames

\* The unique_ptr<LEDBuffer> of an empty slot, and of a frame that was moved from.
NullPtr == [id |-> 0, seconds |-> 0, micros |-> 0, leds |-> <<>>]

\* LEDBuffer(pData, count, seconds, micros); id is the object's identity.
LEDBuffer(id, leds, seconds, micros) ==
    [id |-> id, seconds |-> seconds, micros |-> micros, leds |-> leds]

\* Seconds() + MicroSeconds() / MICROS_PER_SECOND, in microseconds
EffectiveTime(f) == f.seconds * MICROS_PER_SECOND + f.micros

\* Timestamps the producer stamps frames with.
Stamps ==
    { [seconds |-> 0, micros |-> 0],
      [seconds |-> 0, micros |-> 20000] }

\* --------------------------------------------------------- LEDBufferManager

VARIABLES
    bufferManager,      \* [aptrBuffers, iHeadIndex, iTailIndex, cMaxBuffers]
    calls,              \* history (BufferSpec): the completed calls, in order
    mutex,              \* LEDBufferManager::_mutex: [owner, count]
    now,                \* CAppTime::CurrentTime(), in microseconds
    interrupt_received, \* the flag the signal handler sets
    pc,                 \* where each thread is
    local,              \* each thread's locals and the call it is making
    nextId,             \* frames constructed so far
    shadow,             \* history: the manager with every completed call applied atomically
    drawn,              \* history: the frames passed to DrawFrame, in order
    lastResponse,       \* the SocketResponse written last
    new_socket,         \* the client socket and its peer: [state, wire, eof, sent, first, responses, total]
    socketServer,       \* [pBuffer, abOutputBuffer, cbReceived]
    loop,               \* locals of the per-connection do-while
    pkt,                \* history: what has happened to the packet being read
    conns,              \* connections accepted so far
    sizeBits,           \* the width of size_t in the build
    matrix,             \* the RGBMatrix: [canvas, outside, swaps]
    late                \* history (PaceSpec): the ids of the frames whose time had passed when they were read

\* LEDBufferManager(cBuffers)
NewLEDBufferManager(cBuffers) ==
    [ aptrBuffers |-> [i \in 0..(cBuffers - 1) |-> NullPtr],
      iHeadIndex  |-> 0,
      iTailIndex  |-> 0,
      cMaxBuffers |-> cBuffers ]

Capacity(m) == m.cMaxBuffers

SizeNoBranch(m) == m.iHeadIndex + m.cMaxBuffers - m.iTailIndex

Size(m) ==
    IF m.iHeadIndex < m.iTailIndex
    THEN m.iHeadIndex + m.cMaxBuffers - m.iTailIndex
    ELSE m.iHeadIndex - m.iTailIndex

IsEmptyWhenFull(m) == (m.iHeadIndex + 1) % m.cMaxBuffers = m.iTailIndex

IsEmpty(m) == m.iHeadIndex = m.iTailIndex

\* The manager after PopOldestBuffer, and what the call returns
\* (NullPtr stands for std::nullopt).
PopNewest(m) ==
    IF IsEmpty(m)
    THEN [mgr |-> m, result |-> NullPtr]
    ELSE LET n == (m.iHeadIndex + m.cMaxBuffers - 1) % m.cMaxBuffers
         IN  [ mgr    |-> [m EXCEPT !.aptrBuffers[n] = NullPtr, !.iHeadIndex = n],
               result |-> m.aptrBuffers[n] ]

PopOldestBuffer(m) ==
    IF IsEmpty(m)
    THEN [mgr |-> m, result |-> NullPtr]
    ELSE [ mgr    |-> [m EXCEPT !.aptrBuffers[m.iTailIndex] = NullPtr,
                                !.iTailIndex = (m.iTailIndex + 1) % m.cMaxBuffers],
           result |-> m.aptrBuffers[m.iTailIndex] ]

\* The queue-full test of PushNewBuffer
IsFull(m) == (m.iHeadIndex + 1) % m.cMaxBuffers = m.iTailIndex

\* The manager after PushNewBuffer(pBuffer)
PushNewBufferBehindHead(m, pBuffer) ==
    LET tail == IF IsFull(m) THEN (m.iTailIndex + 1) % m.cMaxBuffers ELSE m.iTailIndex
    IN  [m EXCEPT !.iTailIndex = tail,
                  !.aptrBuffers[(m.iHeadIndex + 1) % m.cMaxBuffers] = pBuffer,
                  !.iHeadIndex = (m.iHeadIndex + 1) % m.cMaxBuffers]

PushNewBuffer(m, pBuffer) ==
    LET tail == IF IsFull(m) THEN (m.iTailIndex + 1) % m.cMaxBuffers ELSE m.iTailIndex
    IN  [m EXCEPT !.iTailIndex = tail,
                  !.aptrBuffers[m.iHeadIndex] = pBuffer,
                  !.iHeadIndex = (m.iHeadIndex + 1) % m.cMaxBuffers]

\* The frames a sequence of PopOldestBuffer calls would return, oldest first.
RECURSIVE Enqueued(_)
Enqueued(m) ==
    IF IsEmpty(m) THEN <<>>
    ELSE <<m.aptrBuffers[m.iTailIndex]>> \o Enqueued(PopOldestBuffer(m).mgr)

\* AgeOfOldestBuffer() as of clock reading t, in microseconds
AgeOfOldestBuffer(m, t) ==
    IF ~IsEmpty(m)
    THEN EffectiveTime(m.aptrBuffers[m.iTailIndex]) - t
    ELSE MAXDOUBLE

\* AgeOfNewestBuffer() as of clock reading t, in microseconds
AgeOfNewestAtHead(m, t) ==
    IF ~IsEmpty(m)
    THEN EffectiveTime(m.aptrBuffers[m.iHeadIndex]) - t
    ELSE MAXDOUBLE

AgeOfNewestBuffer(m, t) ==
    IF ~IsEmpty(m)
    THEN LET newestIndex == IF m.iHeadIndex = 0 THEN m.cMaxBuffers - 1 ELSE m.iHeadIndex - 1
         IN  EffectiveTime(m.aptrBuffers[newestIndex]) - t
    ELSE MAXDOUBLE

\* ---------------------------------------------------------- bytes on the wire

\* ------------------------------------------------------------ the matrix

\* buffer->ColorData().size()
PixelCount(f) == Len(f.leds) \div LED_DATA_SIZE

\* buffer->ColorData()[idx], for an idx the frame has
ColorData(f, idx) == SubSeq(f.leds, idx * LED_DATA_SIZE + 1, (idx + 1) * LED_DATA_SIZE)

\* The matrix main creates: every pixel dark. canvas[y * width + x + 1] is
\* the colour set at (x, y); outside is history: the indexes the last
\* DrawFrame read that its frame does not have.
NewMatrix ==
    [ canvas  |-> [p \in 1..(MatrixWidth * MatrixHeight) |-> <<0, 0, 0>>],
      outside |-> {},
      swaps   |-> 0 ]

\* What ColorData()[idx] does for an idx at or beyond size(): the read is
\* outside the vector, so it faults or yields whatever bytes lie there.
Beyond ==
    { [fault |-> TRUE,  color |-> <<0, 0, 0>>],
      [fault |-> FALSE, color |-> <<0, 0, 0>>],
      [fault |-> FALSE, color |-> <<171, 171, 171>>] }

\* DrawFrame(buffer, matrix): throws when the frame has more pixels than the
\* matrix; otherwise sets every pixel of the matrix, x flipped, from
\* ColorData()[idx] for idx < numpixels. The iterations are independent, so
\* the order the parallel loop runs them in does not show in the result.
\* SetPixel is the only call made on the matrix: the count of swaps requested
\* from the driver stays as it is.
DrawFrame(buffer, m, beyond) ==
    LET width     == MatrixWidth
        height    == MatrixHeight
        numpixels == width * height
        size      == PixelCount(buffer)
        outside   == {idx \in 0..(numpixels - 1) : idx >= size}
        color(idx) == IF idx < size THEN ColorData(buffer, idx) ELSE beyond.color
        idxAt(p)  == LET x == (p - 1) % width
                         y == (p - 1) \div width
                     IN  y * width + (width - 1 - x)
    IN  IF size > numpixels
        THEN [thrown |-> TRUE, fault |-> FALSE, matrix |-> [m EXCEPT !.outside = {}]]
        ELSE IF outside # {} /\ beyond.fault
        THEN [thrown |-> FALSE, fault |-> TRUE, matrix |-> [m EXCEPT !.outside = outside]]
        ELSE [ thrown |-> FALSE, fault |-> FALSE,
               matrix |-> [canvas |-> [p \in 1..numpixels |-> color(idxAt(p))],
                           outside |-> outside,
                           swaps |-> m.swaps] ]

\* SocketServer::_maximumPacketSize
MaximumPacketSize == STANDARD_DATA_HEADER_SIZE + LED_DATA_SIZE * MaxLEDs

\* buf[i] of the source, whose offsets start at 0
At(buf, i) == buf[i + 1]

\* the n bytes of buf from offset off on
Bytes(buf, off, n) == SubSeq(buf, off + 1, off + n)

\* memset(p, 0, n)
Zeros(n) == [i \in 1..n |-> 0]

\* a value as the sender lays it out: least significant byte first
LE16(v) == <<v % 256, v \div 256>>

LE32(v) == <<v % 256, (v \div 256) % 256, (v \div 65536) % 256, v \div 16777216>>

LE64(v) == LE32(v) \o <<0, 0, 0, 0>>

\* the little-endian 16 bit value at offset off
WORDFromMemory(buf, off) == At(buf, off + 1) * 256 + At(buf, off)

\* the little-endian 32 bit value at offset off, as its two 16 bit halves
\* (a uint32_t does not fit the integers computed with here)
DWORDFromMemory(buf, off) ==
    [hi |-> WORDFromMemory(buf, off + 2), lo |-> WORDFromMemory(buf, off)]

\* the halves of a number below 2^31
DWORD(v) == [hi |-> v \div 65536, lo |-> v % 65536]

\* v > n for an unsigned v in halves and a number n below 2^16
Exceeds(v, n) == v.hi > 0 \/ v.lo > n

\* n + v computed in uint32_t, as int + uint32_t is
AddU32(n, v) ==
    LET lo == n + v.lo
    IN  [hi |-> (v.hi + lo \div 65536) % 65536, lo |-> lo % 65536]

\* STANDARD_DATA_HEADER_SIZE + length32 * LED_DATA_SIZE computed in a size_t
\* of the given number of bits; hi holds everything above the low 16 bits
HeaderPlusLeds(length32, bits) ==
    LET lo == STANDARD_DATA_HEADER_SIZE + length32.lo * LED_DATA_SIZE
        hi == length32.hi * LED_DATA_SIZE + lo \div 65536
    IN  [hi |-> IF bits = 32 THEN hi % 65536 ELSE hi, lo |-> lo % 65536]

\* the little-endian 64 bit value at offset off
ULONGFromMemory(buf, off) ==
    ((WORDFromMemory(buf, off + 6) * 65536 + WORDFromMemory(buf, off + 4)) * 65536
        + WORDFromMemory(buf, off + 2)) * 65536 + WORDFromMemory(buf, off)

\* n pixels of three bytes each
RECURSIVE Pixels(_)
Pixels(n) == IF n = 0 THEN <<>> ELSE Pixels(n - 1) \o <<n, 0, 255>>

\* the 24 byte header CreateFromWire parses, followed by the pixel bytes
StandardPacket(command16, channel16, length32, seconds, micros, pixels) ==
    LE16(command16) \o LE16(channel16) \o LE32(length32) \o LE64(seconds) \o LE64(micros)
        \o pixels

\* the 16 byte header the read loop parses (tag, compressed size, expanded
\* size, reserved), followed by the compressed bytes
CompressedPacket(tag, body, expandedSize) ==
    tag \o LE32(Len(body)) \o LE32(expandedSize) \o LE32(0) \o body

\* the widths of size_t the program is built with
SizeBits == {32, 64}

\* the letters D, A, V, E in that order
DAVE == <<68, 65, 86, 69>>

\* COMPRESSED_HEADER_TAG as a little-endian sender lays it out
TagBytes == LE32(COMPRESSED_HEADER_TAG)

\* ------------------------------------------------------------------- zlib
\* A zlib stream (RFC 1950) holding one stored block (RFC 1951, 3.2.4): two
\* header bytes, the block header, LEN and its complement, the bytes
\* themselves, and the Adler-32 of the bytes, most significant byte first.
\* This is what deflate produces at level 0 and for data it cannot shrink.

\* the sum of f[lo..hi], by halves
RECURSIVE SumOver(_, _, _)
SumOver(f, lo, hi) ==
    IF lo > hi THEN 0
    ELSE IF lo = hi THEN f[lo]
    ELSE LET mid == (lo + hi) \div 2
         IN  SumOver(f, lo, mid) + SumOver(f, mid + 1, hi)

\* Adler-32 (RFC 1950, 8.2): a is 1 plus the sum of the bytes, b the sum of
\* the values a takes after each byte, both modulo 65521
AdlerSums(data) ==
    LET n == Len(data)
    IN  [ a |-> (1 + SumOver(data, 1, n)) % 65521,
          b |-> (n + SumOver([i \in 1..n |-> (n - i + 1) * data[i]], 1, n)) % 65521 ]

Adler32Bytes(data) ==
    LET s == AdlerSums(data)
    IN  <<s.b \div 256, s.b % 256, s.a \div 256, s.a % 256>>

Deflate(data) ==
    <<120, 1>> \o <<1>> \o LE16(Len(data)) \o LE16(65535 - Len(data))
        \o data \o Adler32Bytes(data)

\* inflate() called until it stops making progress: the code it then returns
\* and the bytes it has written to the output.  Z_BUF_ERROR: the input ended
\* before the stream did, or the output space ran out.  Only stored blocks
\* and the empty block of fixed codes are decoded; the streams sent here use
\* no other block.
Inflate(input, avail_out) ==
    LET n == Len(input)
        Result(ret, out) == [ret |-> ret, out |-> out]
    IN  IF n < 2 THEN Result("Z_BUF_ERROR", <<>>)
        ELSE IF \/ At(input, 0) % 16 # 8
                \/ At(input, 0) \div 16 > 7
                \/ (At(input, 0) * 256 + At(input, 1)) % 31 # 0
                \/ (At(input, 1) \div 32) % 2 = 1
             THEN Result("Z_DATA_ERROR", <<>>)
        ELSE IF n < 3 THEN Result("Z_BUF_ERROR", <<>>)
        ELSE IF At(input, 2) = 3
             \* a final block of fixed Huffman codes (RFC 1951, 3.2.6) whose
             \* first code is the seven zero bits of end-of-block: no output
             THEN IF n < 4 THEN Result("Z_BUF_ERROR", <<>>)
                  ELSE IF At(input, 3) % 4 # 0 THEN Result("Z_DATA_ERROR", <<>>)
                  ELSE IF n < 8 THEN Result("Z_BUF_ERROR", <<>>)
                  ELSE IF Bytes(input, 4, 4) # Adler32Bytes(<<>>)
                       THEN Result("Z_DATA_ERROR", <<>>)
                  ELSE Result("Z_STREAM_END", <<>>)
        ELSE IF At(input, 2) % 8 # 1 THEN Result("Z_DATA_ERROR", <<>>)
        ELSE IF n < 7 THEN Result("Z_BUF_ERROR", <<>>)
        ELSE IF WORDFromMemory(input, 3) + WORDFromMemory(input, 5) # 65535
             THEN Result("Z_DATA_ERROR", <<>>)
        ELSE LET len == WORDFromMemory(input, 3)
                 copied == Min(Min(len, n - 7), avail_out)
                 out == Bytes(input, 7, copied)
             IN  IF copied < len THEN Result("Z_BUF_ERROR", out)
                 ELSE IF n < 7 + len + 4 THEN Result("Z_BUF_ERROR", out)
                 ELSE IF Bytes(input, 7 + len, 4) # Adler32Bytes(out)
                      THEN Result("Z_DATA_ERROR", out)
                 ELSE Result("Z_STREAM_END", out)

\* DecompressBuffer(pBuffer, cBuffer, pOutput, expectedOutputSize): "true",
\* "false", or "spin" when the do-while never sees Z_STREAM_END; and the
\* bytes written to pOutput
DecompressBuffer(pBuffer, cBuffer, expectedOutputSize) ==
    LET r == Inflate(Bytes(pBuffer, 0, cBuffer), expectedOutputSize)
    IN  [ result |-> CASE r.ret = "Z_DATA_ERROR" -> "false"
                       [] r.ret = "Z_BUF_ERROR"  -> "spin"
                       [] r.ret = "Z_STREAM_END" ->
                            IF Len(r.out) # expectedOutputSize THEN "false" ELSE "true",
          out |-> r.out ]

\* ------------------------------------------------------ parsing a payload

\* LEDBuffer::CreateFromWire(span(payloadData, payloadLength)): the frame, or
\* thrown when LEDBufferException is thrown
\* (the size test is computed in a size_t of the given bits).  overrun: the
\* test passed although length32 pixels do not fit the payload, and the
\* LEDBuffer constructor is handed a count that reaches beyond it.
CreateFromWireSwapped(payloadData, payloadLength, id, bits) ==
    IF payloadLength < 24
    THEN [thrown |-> TRUE, frame |-> NullPtr, overrun |-> FALSE]
    ELSE LET length32 == DWORDFromMemory(payloadData, 4)
             seconds  == ULONGFromMemory(payloadData, 16)
             micros   == ULONGFromMemory(payloadData, 8)
         IN  IF Exceeds(HeaderPlusLeds(length32, bits), payloadLength)
             THEN [thrown |-> TRUE, frame |-> NullPtr, overrun |-> FALSE]
             ELSE IF Exceeds(HeaderPlusLeds(length32, 64), payloadLength)
                  THEN [thrown |-> FALSE, frame |-> NullPtr, overrun |-> TRUE]
                  ELSE [ thrown  |-> FALSE,
                         frame   |-> LEDBuffer(id, Bytes(payloadData, 24,
                                                         length32.lo * LED_DATA_SIZE),
                                               seconds, micros),
                         overrun |-> FALSE ]

CreateFromWire(payloadData, payloadLength, id, bits) ==
    IF payloadLength < 24
    THEN [thrown |-> TRUE, frame |-> NullPtr, overrun |-> FALSE]
    ELSE LET length32 == DWORDFromMemory(payloadData, 4)
             seconds  == ULONGFromMemory(payloadData, 8)
             micros   == ULONGFromMemory(payloadData, 16)
         IN  IF Exceeds(HeaderPlusLeds(length32, bits), payloadLength)
             THEN [thrown |-> TRUE, frame |-> NullPtr, overrun |-> FALSE]
             ELSE IF Exceeds(HeaderPlusLeds(length32, 64), payloadLength)
                  THEN [thrown |-> FALSE, frame |-> NullPtr, overrun |-> TRUE]
                  ELSE [ thrown  |-> FALSE,
                         frame   |-> LEDBuffer(id, Bytes(payloadData, 24,
                                                         length32.lo * LED_DATA_SIZE),
                                               seconds, micros),
                         overrun |-> FALSE ]

\* ProcessIncomingData(bufferManager, payloadData, payloadLength): what it
\* returns, the manager afterwards, and the frame it pushed (NullPtr: none)
ProcessIncomingDataAnyChannel(m, payloadData, payloadLength, id, bits) ==
    LET command16 == At(payloadData, 1) * 256 + At(payloadData, 0)
        parsed    == CreateFromWire(payloadData, payloadLength, id, bits)
    IN  IF command16 = WIFI_COMMAND_PIXELDATA64
        THEN IF parsed.thrown
             THEN [ret |-> FALSE, mgr |-> m, pushed |-> NullPtr, overrun |-> FALSE]
             ELSE IF parsed.overrun
                  THEN [ret |-> FALSE, mgr |-> m, pushed |-> NullPtr, overrun |-> TRUE]
                  ELSE [ret |-> TRUE, mgr |-> PushNewBuffer(m, parsed.frame),
                        pushed |-> parsed.frame, overrun |-> FALSE]
        ELSE [ret |-> TRUE, mgr |-> m, pushed |-> NullPtr, overrun |-> FALSE]

ProcessIncomingData(m, payloadData, payloadLength, id, bits) ==
    LET command16 == At(payloadData, 1) * 256 + At(payloadData, 0)
        channel16 == WORDFromMemory(payloadData, 2)
        parsed    == CreateFromWire(payloadData, payloadLength, id, bits)
    IN  IF command16 = WIFI_COMMAND_PIXELDATA64
        THEN IF channel16 # 0 /\ channel16 % 2 = 0
             THEN [ret |-> FALSE, mgr |-> m, pushed |-> NullPtr, overrun |-> FALSE]
             ELSE IF parsed.thrown
                  THEN [ret |-> FALSE, mgr |-> m, pushed |-> NullPtr, overrun |-> FALSE]
                  ELSE IF parsed.overrun
                       THEN [ret |-> FALSE, mgr |-> m, pushed |-> NullPtr, overrun |-> TRUE]
                       ELSE [ret |-> TRUE, mgr |-> PushNewBuffer(m, parsed.frame),
                             pushed |-> parsed.frame, overrun |-> FALSE]
        ELSE [ret |-> TRUE, mgr |-> m, pushed |-> NullPtr, overrun |-> FALSE]

\* ----------------------------------------------------- what the peer sends

\* a valid PIXELDATA64 packet without pixels, and one on channel 1 with a
\* pixel for every LED of the matrix
Std0 == StandardPacket(WIFI_COMMAND_PIXELDATA64, 0, 0, 0, 0, <<>>)
StdFull == StandardPacket(WIFI_COMMAND_PIXELDATA64, 1, MaxLEDs, 0, 20000, Pixels(MaxLEDs))

\* the valid standard packets, by name
ValidStandard == [std0 |-> Std0, full |-> StdFull]

Packets ==
    [ std0   |-> Std0,
      full   |-> StdFull,
      \* a command the read loop does not know
      peak   |-> StandardPacket(WIFI_COMMAND_PEAKDATA, 0, 0, 0, 0, <<>>),
      \* more pixels than the matrix has
      big    |-> StandardPacket(WIFI_COMMAND_PIXELDATA64, 0, MaxLEDs + 1, 0, 0,
                                Pixels(MaxLEDs + 1)),
      \* pixel counts of 10,000,000, of 0x55555556 (three times it is 2 above
      \* 2^32; two bytes follow the header) and of 0xFFFFFFFF
      huge   |-> StandardPacket(WIFI_COMMAND_PIXELDATA64, 0, 10000000, 0, 0, <<>>),
      wrap   |-> StandardPacket(WIFI_COMMAND_PIXELDATA64, 0, 1431655766, 0, 0, <<7, 7>>),
      ones   |-> LE16(WIFI_COMMAND_PIXELDATA64) \o LE16(0) \o <<255, 255, 255, 255>>
                     \o LE64(0) \o LE64(0),
      \* a channel mask without bit 0
      chan2  |-> StandardPacket(WIFI_COMMAND_PIXELDATA64, 2, 0, 0, 0, <<>>),
      \* channel masks 3, 0x8000 and 0xFFFF
      chan3   |-> StandardPacket(WIFI_COMMAND_PIXELDATA64, 3, 0, 0, 0, <<>>),
      chanTop |-> StandardPacket(WIFI_COMMAND_PIXELDATA64, 32768, 0, 0, 0, <<>>),
      chanAll |-> StandardPacket(WIFI_COMMAND_PIXELDATA64, 65535, 0, 0, 0, <<>>),
      \* the valid packets deflated, behind the letters D, A, V, E
      dave_std0 |-> CompressedPacket(DAVE, Deflate(Std0), Len(Std0)),
      dave_full |-> CompressedPacket(DAVE, Deflate(StdFull), Len(StdFull)),
      \* the valid packets deflated, behind COMPRESSED_HEADER_TAG
      tag_std0  |-> CompressedPacket(TagBytes, Deflate(Std0), Len(Std0)),
      tag_full  |-> CompressedPacket(TagBytes, Deflate(StdFull), Len(StdFull)),
      \* a stream whose checksum is wrong
      tag_corrupt |-> CompressedPacket(TagBytes,
                          [Deflate(Std0) EXCEPT ![Len(Deflate(Std0))] = (@ + 1) % 256],
                          Len(Std0)),
      \* expanded sizes one above and one below what the stream inflates to
      tag_over  |-> CompressedPacket(TagBytes, Deflate(Std0), Len(Std0) + 1),
      tag_under |-> CompressedPacket(TagBytes, Deflate(Std0), Len(Std0) - 1),
      \* a header that promises a pixel the payload does not hold
      tag_badlen |-> CompressedPacket(TagBytes,
                          Deflate(StandardPacket(WIFI_COMMAND_PIXELDATA64, 0, 1, 0, 0, <<>>)),
                          STANDARD_DATA_HEADER_SIZE),
      \* a compressed size of 0xFFFFFFF0: 16 more is 0 in a uint32_t; nothing
      \* follows the header
      tag_wrap  |-> TagBytes \o <<240, 255, 255, 255>> \o LE32(STANDARD_DATA_HEADER_SIZE)
                        \o LE32(0),
      \* the same compressed size with an expanded size of 0, followed by the
      \* eight bytes of the zlib stream of no data
      tag_wrap0 |-> TagBytes \o <<240, 255, 255, 255>> \o LE32(0) \o LE32(0)
                        \o <<120, 156, 3, 0, 0, 0, 0, 1>>,
      \* another command, deflated
      tag_peak  |-> CompressedPacket(TagBytes,
                          Deflate(StandardPacket(WIFI_COMMAND_PEAKDATA, 0, 0, 0, 0, <<>>)),
                          STANDARD_DATA_HEADER_SIZE) ]

\* what the peer sends after its first packet: a frame, plain and compressed,
\* a stream that does not inflate and a command the loop does not know
LaterPackets == {"full", "tag_full", "tag_corrupt", "peak"}

\* the compressed form of a valid standard packet, behind the letters DAVE
Wrapped(name) == CASE name = "std0" -> "dave_std0" [] name = "full" -> "dave_full"

\* ... and behind COMPRESSED_HEADER_TAG
WrappedTag(name) == CASE name = "std0" -> "tag_std0" [] name = "full" -> "tag_full"

\* --------------------------------------------------- SocketServer's state

\* new_socket before the first accept
NoSocket ==
    [ state |-> "none", wire |-> <<>>, eof |-> FALSE, sent |-> 0, first |-> "none",
      responses |-> 0, total |-> 0 ]

\* SocketServer(port, maxLEDs): both buffers allocated, _cbReceived(0)
NewSocketServer ==
    [ pBuffer        |-> Zeros(MaximumPacketSize),
      abOutputBuffer |-> Zeros(MaximumPacketSize),
      cbReceived     |-> 0 ]

\* locals of the do-while in ProcessIncomingConnectionsLoop, and the
\* arguments of the call it is making
IdleLoop ==
    [ cbNeeded |-> DWORD(0), ret |-> "none", compressedSize |-> DWORD(0), expandedSize |-> 0,
      payloadLength |-> 0, payload |-> "pBuffer", bSendResponsePacket |-> FALSE ]

\* history: nothing seen yet of the packet of iteration index. reads counts
\* the read() calls that returned bytes, cbRead is what the last read()
\* returned (1 stands for any positive count), eintr says that a read() of
\* this packet was interrupted.
NoPacket(index, frames) ==
    [ index |-> index, frames |-> frames, first4 |-> <<>>, path |-> "none",
      length32 |-> DWORD(0), pushed |-> NullPtr, responded |-> FALSE, error |-> "none",
      reads |-> 0, cbRead |-> 1, eintr |-> FALSE ]

netVars == <<new_socket, socketServer, loop, pkt, conns, sizeBits, matrix, late>>

NetInit ==
    /\ new_socket = NoSocket
    /\ socketServer = NewSocketServer
    /\ loop = IdleLoop
    /\ pkt = NoPacket(0, 0)
    /\ conns = 0

\* ------------------------------------------- the program: threads and mutex

Threads == {"listener", "pacer"}

\* labels of a thread inside a LEDBufferManager call
OpLabels ==
    { "lock", "isempty", "isempty_in", "pop_move", "pop_advance", "oldest_read",
      "newest_read", "size_body", "push_full", "push_store", "push_advance", "unlock" }

IdleLocal ==
    [ op |-> "none", ret |-> "none", pBuffer |-> NullPtr, res |-> NullPtr,
      expected |-> NullPtr, enqueued |-> TRUE, t |-> 0, wake |-> 0 ]

NoResponse == [written |-> FALSE]

\* std::recursive_mutex: lock() returns when no other thread owns the mutex
MutexAlwaysFree(t) == TRUE

MutexFree(t) == mutex.owner \in {"none", t}

\* lock_guard constructor / destructor
Locked(t) == [owner |-> t, count |-> mutex.count + 1]

UnlockedAtOnce == [owner |-> "none", count |-> 0]

Unlocked ==
    [ owner |-> IF mutex.count = 1 THEN "none" ELSE mutex.owner,
      count |-> mutex.count - 1 ]

\* thread t starts the call op, to continue at ret when it returns
Call(t, op, ret, arg) ==
    /\ pc' = [pc EXCEPT ![t] = "lock"]
    /\ local' = [local EXCEPT ![t] = [IdleLocal EXCEPT !.op = op, !.ret = ret, !.pBuffer = arg]]

Goto(t, label) == pc' = [pc EXCEPT ![t] = label]

\* the lock_guard at the top of every LEDBufferManager method
Lock(t) ==
    /\ pc[t] = "lock"
    /\ MutexFree(t)
    /\ mutex' = Locked(t)
    /\ Goto(t, CASE local[t].op \in {"pop", "oldest", "newest"} -> "isempty"
                 [] local[t].op = "size" -> "size_body"
                 [] local[t].op = "push" -> "push_full")
    /\ UNCHANGED <<bufferManager, local, now, shadow>>
    /\ UNCHANGED <<calls, interrupt_received, nextId, drawn, lastResponse>>
    /\ UNCHANGED netVars

\* IsEmpty() called with the lock held: the recursive mutex is locked again
IsEmptyEnter(t) ==
    /\ pc[t] = "isempty"
    /\ MutexFree(t)
    /\ mutex' = Locked(t)
    /\ Goto(t, "isempty_in")
    /\ UNCHANGED <<bufferManager, local, now, shadow>>
    /\ UNCHANGED <<calls, interrupt_received, nextId, drawn, lastResponse>>
    /\ UNCHANGED netVars

\* IsEmpty() returns _iHeadIndex == _iTailIndex and the caller branches on it
IsEmptyReturn(t) ==
    /\ pc[t] = "isempty_in"
    /\ mutex' = Unlocked
    /\ IF IsEmpty(bufferManager)
       THEN /\ Goto(t, "unlock")
            /\ local' = [local EXCEPT ![t].res =
                            IF local[t].op = "pop" THEN NullPtr ELSE MAXDOUBLE]
       ELSE /\ Goto(t, CASE local[t].op = "pop" -> "pop_move"
                         [] local[t].op = "oldest" -> "oldest_read"
                         [] local[t].op = "newest" -> "newest_read")
            /\ UNCHANGED local
    /\ UNCHANGED <<bufferManager, now, shadow>>
    /\ UNCHANGED <<calls, interrupt_received, nextId, drawn, lastResponse>>
    /\ UNCHANGED netVars

\* PopOldestBuffer: pResult = std::move(_aptrBuffers[_iTailIndex])
PopMove(t) ==
    /\ pc[t] = "pop_move"
    /\ local' = [local EXCEPT ![t].res = bufferManager.aptrBuffers[bufferManager.iTailIndex],
                              ![t].t = now]
    /\ bufferManager' = [bufferManager EXCEPT !.aptrBuffers[bufferManager.iTailIndex] = NullPtr]
    /\ Goto(t, "pop_advance")
    /\ UNCHANGED <<mutex, now, shadow>>
    /\ UNCHANGED <<calls, interrupt_received, nextId, drawn, lastResponse>>
    /\ UNCHANGED netVars

\* PopOldestBuffer: _iTailIndex = (_iTailIndex + 1) % _cMaxBuffers
PopAdvance(t) ==
    /\ pc[t] = "pop_advance"
    /\ bufferManager' = [bufferManager EXCEPT !.iTailIndex =
                            (bufferManager.iTailIndex + 1) % bufferManager.cMaxBuffers]
    /\ Goto(t, "unlock")
    /\ UNCHANGED <<mutex, local, now, shadow>>
    /\ UNCHANGED <<calls, interrupt_received, nextId, drawn, lastResponse>>
    /\ UNCHANGED netVars

\* AgeOfOldestBuffer: the oldest frame's time minus CAppTime::CurrentTime()
OldestRead(t) ==
    /\ pc[t] = "oldest_read"
    /\ local' = [local EXCEPT ![t].res = AgeOfOldestBuffer(bufferManager, now), ![t].t = now]
    /\ Goto(t, "unlock")
    /\ UNCHANGED <<bufferManager, mutex, now, shadow>>
    /\ UNCHANGED <<calls, interrupt_received, nextId, drawn, lastResponse>>
    /\ UNCHANGED netVars

\* AgeOfNewestBuffer: the newest frame's time minus CAppTime::CurrentTime()
NewestRead(t) ==
    /\ pc[t] = "newest_read"
    /\ local' = [local EXCEPT ![t].res = AgeOfNewestBuffer(bufferManager, now), ![t].t = now]
    /\ Goto(t, "unlock")
    /\ UNCHANGED <<bufferManager, mutex, now, shadow>>
    /\ UNCHANGED <<calls, interrupt_received, nextId, drawn, lastResponse>>
    /\ UNCHANGED netVars

\* Size
SizeBody(t) ==
    /\ pc[t] = "size_body"
    /\ local' = [local EXCEPT ![t].res = Size(bufferManager)]
    /\ Goto(t, "unlock")
    /\ UNCHANGED <<bufferManager, mutex, now, shadow>>
    /\ UNCHANGED <<calls, interrupt_received, nextId, drawn, lastResponse>>
    /\ UNCHANGED netVars

\* PushNewBuffer: if the queue is full, step the tail over the oldest buffer
PushFull(t) ==
    /\ pc[t] = "push_full"
    /\ bufferManager' =
         IF IsFull(bufferManager)
         THEN [bufferManager EXCEPT !.iTailIndex =
                  (bufferManager.iTailIndex + 1) % bufferManager.cMaxBuffers]
         ELSE bufferManager
    /\ Goto(t, "push_store")
    /\ UNCHANGED <<mutex, local, now, shadow>>
    /\ UNCHANGED <<calls, interrupt_received, nextId, drawn, lastResponse>>
    /\ UNCHANGED netVars

\* PushNewBuffer: _aptrBuffers[_iHeadIndex] = std::move(pBuffer)
PushStore(t) ==
    /\ pc[t] = "push_store"
    /\ bufferManager' = [bufferManager EXCEPT !.aptrBuffers[bufferManager.iHeadIndex] =
                            local[t].pBuffer]
    /\ Goto(t, "push_advance")
    /\ UNCHANGED <<mutex, local, now, shadow>>
    /\ UNCHANGED <<calls, interrupt_received, nextId, drawn, lastResponse>>
    /\ UNCHANGED netVars

\* PushNewBuffer: _iHeadIndex = (_iHeadIndex + 1) % _cMaxBuffers
PushAdvance(t) ==
    /\ pc[t] = "push_advance"
    /\ bufferManager' = [bufferManager EXCEPT !.iHeadIndex =
                            (bufferManager.iHeadIndex + 1) % bufferManager.cMaxBuffers]
    /\ local' = [local EXCEPT ![t].res = NullPtr]
    /\ Goto(t, "unlock")
    /\ UNCHANGED <<mutex, now, shadow>>
    /\ UNCHANGED <<calls, interrupt_received, nextId, drawn, lastResponse>>
    /\ UNCHANGED netVars

\* The lock_guard is destroyed and the call returns.  History: the call takes
\* effect on the shadow manager here, in one step; the result it has there is
\* kept, and for a push whether the frame is then one a pop will return.
Unlock(t) ==
    /\ pc[t] = "unlock"
    /\ mutex' = Unlocked
    /\ LET op == local[t].op
           popped == PopOldestBuffer(shadow)
           after == CASE op = "push" -> PushNewBuffer(shadow, local[t].pBuffer)
                      [] op = "pop"  -> popped.mgr
                      [] OTHER       -> shadow
       IN  /\ shadow' = after
           /\ local' = [local EXCEPT
                  ![t].expected =
                      CASE op = "push"   -> NullPtr
                        [] op = "pop"    -> popped.result
                        [] op = "oldest" -> AgeOfOldestBuffer(shadow, local[t].t)
                        [] op = "newest" -> AgeOfNewestBuffer(shadow, local[t].t)
                        [] op = "size"   -> Size(shadow),
                  ![t].enqueued =
                      (op = "push") => (local[t].pBuffer \in Range(Enqueued(after)))]
    /\ Goto(t, local[t].ret)
    /\ UNCHANGED <<bufferManager, now>>
    /\ UNCHANGED <<calls, interrupt_received, nextId, drawn, lastResponse>>
    /\ UNCHANGED netVars

\* ------------------------------------------------- the program: the Pacer

\* RunDrawLoop: while (!interrupt_received), then the inner loop's first test
PacerLoop ==
    /\ pc["pacer"] = "p_loop"
    /\ IF interrupt_received
       THEN Goto("pacer", "p_done") /\ UNCHANGED local
       ELSE Call("pacer", "oldest", "p_test", NullPtr)
    /\ UNCHANGED <<bufferManager, mutex, now, shadow, drawn>>
    /\ UNCHANGED <<calls, interrupt_received, nextId, lastResponse>>
    /\ UNCHANGED netVars

\* while (bufferManager.AgeOfOldestBuffer() <= 0): pop; otherwise ask the age
\* again for the delay
PacerTest ==
    /\ pc["pacer"] = "p_test"
    /\ IF local["pacer"].res <= 0
       THEN Call("pacer", "pop", "p_popped", NullPtr)
       ELSE Call("pacer", "oldest", "p_delay", NullPtr)
    /\ UNCHANGED <<bufferManager, mutex, now, shadow, drawn>>
    /\ UNCHANGED <<calls, interrupt_received, nextId, lastResponse>>
    /\ UNCHANGED netVars

\* if (!buffer.has_value()) continue; DrawFrame(buffer.value(), matrix);
\* then the inner loop's test again
PacerPoppedBurning ==
    /\ pc["pacer"] = "p_popped"
    /\ drawn' = IF local["pacer"].res = NullPtr \/ AgeOfOldestBuffer(bufferManager, now) <= 0
                THEN drawn
                ELSE Append(drawn, local["pacer"].res)
    /\ Call("pacer", "oldest", "p_test", NullPtr)
    /\ UNCHANGED <<bufferManager, mutex, now, shadow>>
    /\ UNCHANGED <<calls, interrupt_received, nextId, lastResponse>>
    /\ UNCHANGED netVars

PacerPopped ==
    /\ pc["pacer"] = "p_popped"
    /\ drawn' = IF local["pacer"].res = NullPtr
                THEN drawn
                ELSE Append(drawn, local["pacer"].res)
    /\ Call("pacer", "oldest", "p_test", NullPtr)
    /\ UNCHANGED <<bufferManager, mutex, now, shadow>>
    /\ UNCHANGED <<calls, interrupt_received, nextId, lastResponse>>
    /\ UNCHANGED netVars

\* delay = min(kMaximumWait, age * MICROS_PER_SECOND); if (delay > 0) sleep_for
PacerDelayNotNegative ==
    /\ pc["pacer"] = "p_delay"
    /\ LET delay == Min(kMaximumWait, local["pacer"].res)
       IN  IF delay >= 0
           THEN /\ Goto("pacer", "p_sleep")
                /\ local' = [local EXCEPT !["pacer"] = [IdleLocal EXCEPT !.wake = now + delay]]
           ELSE /\ Goto("pacer", "p_loop")
                /\ local' = [local EXCEPT !["pacer"] = IdleLocal]
    /\ UNCHANGED <<bufferManager, mutex, now, shadow, drawn>>
    /\ UNCHANGED <<calls, interrupt_received, nextId, lastResponse>>
    /\ UNCHANGED netVars

PacerDelay ==
    /\ pc["pacer"] = "p_delay"
    /\ LET delay == Min(kMaximumWait, local["pacer"].res)
       IN  IF delay > 0
           THEN /\ Goto("pacer", "p_sleep")
                /\ local' = [local EXCEPT !["pacer"] = [IdleLocal EXCEPT !.wake = now + delay]]
           ELSE /\ Goto("pacer", "p_loop")
                /\ local' = [local EXCEPT !["pacer"] = IdleLocal]
    /\ UNCHANGED <<bufferManager, mutex, now, shadow, drawn>>
    /\ UNCHANGED <<calls, interrupt_received, nextId, lastResponse>>
    /\ UNCHANGED netVars

\* sleep_for returns once the delay has passed
PacerWake ==
    /\ pc["pacer"] = "p_sleep"
    /\ now >= local["pacer"].wake
    /\ Goto("pacer", "p_loop")
    /\ local' = [local EXCEPT !["pacer"] = IdleLocal]
    /\ UNCHANGED <<bufferManager, mutex, now, shadow, drawn>>
    /\ UNCHANGED <<calls, interrupt_received, nextId, lastResponse>>
    /\ UNCHANGED netVars

\* ---------------------------------------- the program: the Listener thread
\* (Spec takes each packet's reads and parse as one step of the Listener; the
\* reads are stepped through in ListenerSpec.)

\* ProcessIncomingConnectionsLoop: while (!interrupt_received), accept
ListenerAccept ==
    /\ pc["listener"] = "l_accept"
    /\ Goto("listener", IF interrupt_received THEN "l_done" ELSE "l_read")
    /\ UNCHANGED <<local, nextId, lastResponse>>
    /\ UNCHANGED <<bufferManager, mutex, now, shadow, drawn, calls, interrupt_received>>
    /\ UNCHANGED netVars

\* a PIXELDATA64 packet is read and ProcessIncomingData calls
\* PushNewBuffer(CreateFromWire(...))
ListenerPacket ==
    /\ pc["listener"] = "l_read"
    /\ nextId < MaxFrames
    /\ \E ts \in Stamps :
         Call("listener", "push", "l_pushed", LEDBuffer(nextId + 1, <<>>, ts.seconds, ts.micros))
    /\ nextId' = nextId + 1
    /\ lastResponse' = NoResponse
    /\ UNCHANGED <<bufferManager, mutex, now, shadow, drawn, calls, interrupt_received>>
    /\ UNCHANGED netVars

\* a read fails: break, close(new_socket), ResetReadBuffer, sleep(1)
ListenerDisconnect ==
    /\ pc["listener"] = "l_read"
    /\ Goto("listener", "l_accept")
    /\ lastResponse' = NoResponse
    /\ UNCHANGED <<local, nextId>>
    /\ UNCHANGED <<bufferManager, mutex, now, shadow, drawn, calls, interrupt_received>>
    /\ UNCHANGED netVars

\* the SocketResponse initializer: CurrentTime(), then AgeOfOldestBuffer()
ListenerPushed ==
    /\ pc["listener"] = "l_pushed"
    /\ Call("listener", "oldest", "l_oldest", NullPtr)
    /\ lastResponse' = [written |-> FALSE, currentClock |-> now]
    /\ UNCHANGED nextId
    /\ UNCHANGED <<bufferManager, mutex, now, shadow, drawn, calls, interrupt_received>>
    /\ UNCHANGED netVars

\* .oldestPacket is set; AgeOfNewestBuffer()
ListenerOldest ==
    /\ pc["listener"] = "l_oldest"
    /\ Call("listener", "newest", "l_newest", NullPtr)
    /\ lastResponse' = [written |-> FALSE, currentClock |-> lastResponse.currentClock,
                        oldestPacket |-> local["listener"].res]
    /\ UNCHANGED nextId
    /\ UNCHANGED <<bufferManager, mutex, now, shadow, drawn, calls, interrupt_received>>
    /\ UNCHANGED netVars

\* .newestPacket is set; Capacity() and Size()
ListenerNewest ==
    /\ pc["listener"] = "l_newest"
    /\ Call("listener", "size", "l_size", NullPtr)
    /\ lastResponse' = [written |-> FALSE, currentClock |-> lastResponse.currentClock,
                        oldestPacket |-> lastResponse.oldestPacket,
                        newestPacket |-> local["listener"].res,
                        bufferSize |-> Capacity(bufferManager)]
    /\ UNCHANGED nextId
    /\ UNCHANGED <<bufferManager, mutex, now, shadow, drawn, calls, interrupt_received>>
    /\ UNCHANGED netVars

\* .bufferPos is set and the response is written to the socket
ListenerRespond ==
    /\ pc["listener"] = "l_size"
    /\ Goto("listener", "l_read")
    /\ lastResponse' = [written |-> TRUE, currentClock |-> lastResponse.currentClock,
                        oldestPacket |-> lastResponse.oldestPacket,
                        newestPacket |-> lastResponse.newestPacket,
                        bufferSize |-> lastResponse.bufferSize,
                        bufferPos |-> local["listener"].res]
    /\ local' = [local EXCEPT !["listener"] = IdleLocal]
    /\ UNCHANGED nextId
    /\ UNCHANGED <<bufferManager, mutex, now, shadow, drawn, calls, interrupt_received>>
    /\ UNCHANGED netVars

\* ------------------------------------------- the program: clock and signal

\* time passes
Tick ==
    /\ now < MaxClock * TickMicros
    /\ now' = now + TickMicros
    /\ UNCHANGED <<bufferManager, calls, mutex, interrupt_received, pc, local, nextId,
                   shadow, drawn, lastResponse>>
    /\ UNCHANGED netVars

\* InterruptHandler(signo)
InterruptHandler ==
    /\ ~interrupt_received
    /\ interrupt_received' = TRUE
    /\ UNCHANGED <<bufferManager, calls, mutex, now, pc, local, nextId, shadow,
                   drawn, lastResponse>>
    /\ UNCHANGED netVars

vars == <<bufferManager, calls, mutex, now, interrupt_received, pc, local, nextId,
          shadow, drawn, lastResponse, new_socket, socketServer, loop, pkt, conns,
          sizeBits, matrix, late>>

\* main: LEDBufferManager bufferManager(kMaxBuffers), the Listener thread is
\* started and RunDrawLoop runs
Init ==
    /\ bufferManager = NewLEDBufferManager(MaxBuffers)
    /\ shadow = NewLEDBufferManager(MaxBuffers)
    /\ calls = <<>>
    /\ mutex = [owner |-> "none", count |-> 0]
    /\ now = 0
    /\ interrupt_received = FALSE
    /\ pc = [t \in Threads |-> IF t = "pacer" THEN "p_loop" ELSE "l_accept"]
    /\ local = [t \in Threads |-> IdleLocal]
    /\ nextId = 0
    /\ drawn = <<>>
    /\ lastResponse = NoResponse
    /\ NetInit
    /\ sizeBits = 64
    /\ matrix = NewMatrix
    /\ late = {}

Next ==
    \/ \E t \in Threads :
          \/ Lock(t)
          \/ IsEmptyEnter(t)
          \/ IsEmptyReturn(t)
          \/ PopMove(t)
          \/ PopAdvance(t)
          \/ OldestRead(t)
          \/ NewestRead(t)
          \/ SizeBody(t)
          \/ PushFull(t)
          \/ PushStore(t)
          \/ PushAdvance(t)
          \/ Unlock(t)
    \/ PacerLoop
    \/ PacerTest
    \/ PacerPopped
    \/ PacerDelay
    \/ PacerWake
    \/ ListenerAccept
    \/ ListenerPacket
    \/ ListenerDisconnect
    \/ ListenerPushed
    \/ ListenerOldest
    \/ ListenerNewest
    \/ ListenerRespond
    \/ Tick
    \/ InterruptHandler

Spec == Init /\ [][Next]_vars

\* ------------------------------------------------- BufferSpec: the history

PushCalls == SelectSeq(calls, LAMBDA c : c.op = "push")
PopCalls  == SelectSeq(calls, LAMBDA c : c.op = "pop")

\* frames pushed so far, in push order
Pushed == [i \in 1..Len(PushCalls) |-> PushCalls[i].frame]
\* frames returned by PopOldestBuffer so far, in pop order
Popped ==
    LET hits == SelectSeq(PopCalls, LAMBDA c : c.result # NullPtr)
    IN  [i \in 1..Len(hits) |-> hits[i].result]

\* frames a push made unreachable by advancing the tail over them
Dropped == {c.dropped : c \in {d \in Range(PushCalls) : d.dropped # NullPtr}}
\* ... counting only pushes made while Size() = Capacity()
DroppedWhenFull ==
    {c.dropped : c \in {d \in Range(PushCalls) : d.dropped # NullPtr /\ d.sizeBefore = d.capacity}}

\* ------------------------------------------------------ BufferSpec: actions

BufferInit ==
    /\ \E cBuffers \in 1..MaxCapacity :
          /\ bufferManager = NewLEDBufferManager(cBuffers)
          /\ shadow = NewLEDBufferManager(cBuffers)
    /\ calls = <<>>
    /\ mutex = [owner |-> "none", count |-> 0]
    /\ now = 0
    /\ interrupt_received = FALSE
    /\ pc = [t \in Threads |-> "none"]
    /\ local = [t \in Threads |-> IdleLocal]
    /\ nextId = 0
    /\ drawn = <<>>
    /\ lastResponse = NoResponse
    /\ NetInit
    /\ sizeBits = 64
    /\ matrix = NewMatrix
    /\ late = {}

\* bufferManager.PushNewBuffer(make_unique<LEDBuffer>(...))
CallPush ==
    /\ Len(calls) < MaxCalls
    /\ \E ts \in Stamps :
         LET f == LEDBuffer(Len(PushCalls) + 1, <<>>, ts.seconds, ts.micros)
             after == PushNewBuffer(bufferManager, f)
             \* what the tail slot held when the queue-full branch stepped over it
             lost == IF IsFull(bufferManager)
                     THEN bufferManager.aptrBuffers[bufferManager.iTailIndex]
                     ELSE NullPtr
         IN  /\ bufferManager' = after
             /\ calls' = Append(calls, [ op |-> "push", frame |-> f, result |-> NullPtr,
                                         dropped |-> lost,
                                         sizeBefore |-> Size(bufferManager),
                                         capacity |-> Capacity(bufferManager) ])
    /\ UNCHANGED <<mutex, now, interrupt_received, pc, local, nextId, shadow,
                 drawn, lastResponse>>
    /\ UNCHANGED netVars

\* bufferManager.PopOldestBuffer()
CallPop ==
    /\ Len(calls) < MaxCalls
    /\ LET r == PopOldestBuffer(bufferManager)
       IN  /\ bufferManager' = r.mgr
           /\ calls' = Append(calls, [ op |-> "pop", frame |-> NullPtr, result |-> r.result,
                                       dropped |-> NullPtr,
                                       sizeBefore |-> Size(bufferManager),
                                       capacity |-> Capacity(bufferManager) ])
    /\ UNCHANGED <<mutex, now, interrupt_received, pc, local, nextId, shadow,
                 drawn, lastResponse>>
    /\ UNCHANGED netVars

BufferNext == CallPush \/ CallPop

BufferSpec == BufferInit /\ [][BufferNext]_vars

\* ------------------------------------------ ListenerSpec: the read loop
\* ProcessIncomingConnectionsLoop, one read() at a time, with the peer that
\* feeds it.  The Pacer does not run here.

\* ResetReadBuffer(): _cbReceived = 0 and the buffer is zeroed
ResetKeepsCount(s) == [s EXCEPT !.pBuffer = Zeros(MaximumPacketSize)]

ResetReadBuffer(s) == [s EXCEPT !.cbReceived = 0, !.pBuffer = Zeros(MaximumPacketSize)]

\* the byte counts one read() may return when avail bytes wait and want are asked for
ReadSizes(avail, want) ==
    {Min(avail, want)} \cup {k \in {SegmentBytes} : k < Min(avail, want)}

\* a break out of the do-while
Break(kind) ==
    /\ pc' = [pc EXCEPT !["listener"] = "c_break"]
    /\ pkt' = [pkt EXCEPT !.error = kind]

ListenerInit ==
    /\ bufferManager = NewLEDBufferManager(MaxBuffers)
    /\ shadow = NewLEDBufferManager(MaxBuffers)
    /\ calls = <<>>
    /\ mutex = [owner |-> "none", count |-> 0]
    /\ now = 0
    /\ interrupt_received = FALSE
    /\ pc = [t \in Threads |-> IF t = "listener" THEN "c_accept" ELSE "none"]
    /\ local = [t \in Threads |-> IdleLocal]
    /\ nextId = 0
    /\ drawn = <<>>
    /\ lastResponse = NoResponse
    /\ NetInit
    /\ sizeBits \in SizeBits
    /\ matrix = NewMatrix
    /\ late = {}

\* while (!interrupt_received) ... accept() returns a connection, getpeername
\* and setsockopt succeed
AcceptConnection ==
    /\ pc["listener"] = "c_accept"
    /\ ~interrupt_received
    /\ conns < MaxConnections
    /\ conns' = conns + 1
    /\ new_socket' = [NoSocket EXCEPT !.state = "open", !.total = new_socket.total]
    /\ pkt' = NoPacket(0, nextId)
    /\ pc' = [pc EXCEPT !["listener"] = "c_top"]
    /\ UNCHANGED <<socketServer, loop>>
    /\ UNCHANGED <<bufferManager, calls, mutex, now, interrupt_received, local, nextId,
                   shadow, drawn, lastResponse>>
    /\ UNCHANGED <<sizeBits, matrix, late>>

\* getpeername or setsockopt fails: close(new_socket); ResetReadBuffer(); continue
SetupFails ==
    /\ pc["listener"] = "c_accept"
    /\ ~interrupt_received
    /\ conns < MaxConnections
    /\ conns' = conns + 1
    /\ new_socket' = [NoSocket EXCEPT !.state = "closed", !.total = new_socket.total]
    /\ socketServer' = ResetReadBuffer(socketServer)
    /\ pkt' = NoPacket(0, nextId)
    /\ UNCHANGED <<pc, loop>>
    /\ UNCHANGED <<bufferManager, calls, mutex, now, interrupt_received, local, nextId,
                   shadow, drawn, lastResponse>>
    /\ UNCHANGED <<sizeBits, matrix, late>>

\* while (!interrupt_received) is false: the loop returns
AcceptInterrupted ==
    /\ pc["listener"] = "c_accept"
    /\ interrupt_received
    /\ pc' = [pc EXCEPT !["listener"] = "c_done"]
    /\ UNCHANGED netVars
    /\ UNCHANGED <<bufferManager, calls, mutex, now, interrupt_received, local, nextId,
                   shadow, drawn, lastResponse>>

\* the peer writes a whole packet to the connection, any of Packets first and
\* one of LaterPackets after that, once the bytes it wrote before have been
\* read (read() is asked for no more than the bytes still
\* needed, so the loop cannot tell when later bytes were written)
PeerSends ==
    /\ new_socket.state = "open"
    /\ ~new_socket.eof
    /\ new_socket.wire = <<>>
    /\ new_socket.total < MaxPackets
    /\ \E name \in IF new_socket.sent = 0 THEN DOMAIN Packets ELSE LaterPackets :
          new_socket' = [new_socket EXCEPT !.wire = @ \o Packets[name],
                                           !.sent = @ + 1,
                                           !.total = @ + 1,
                                           !.first = IF new_socket.sent = 0 THEN name ELSE @]
    /\ UNCHANGED <<socketServer, loop, pkt, conns>>
    /\ UNCHANGED <<bufferManager, calls, mutex, now, interrupt_received, pc, local, nextId,
                   shadow, drawn, lastResponse>>
    /\ UNCHANGED <<sizeBits, matrix, late>>

\* the peer closes its end
PeerCloses ==
    /\ new_socket.state = "open"
    /\ ~new_socket.eof
    /\ new_socket' = [new_socket EXCEPT !.eof = TRUE]
    /\ UNCHANGED <<socketServer, loop, pkt, conns>>
    /\ UNCHANGED <<bufferManager, calls, mutex, now, interrupt_received, pc, local, nextId,
                   shadow, drawn, lastResponse>>
    /\ UNCHANGED <<sizeBits, matrix, late>>

\* do { bool bSendResponsePacket = false;
\*      ReadUntilNBytesReceived(new_socket, STANDARD_DATA_HEADER_SIZE)
LoopTop ==
    /\ pc["listener"] = "c_top"
    /\ loop' = [IdleLoop EXCEPT !.cbNeeded = DWORD(STANDARD_DATA_HEADER_SIZE),
                            !.ret = "c_classify"]
    /\ pkt' = NoPacket(pkt.index + 1, nextId)
    /\ lastResponse' = NoResponse
    /\ pc' = [pc EXCEPT !["listener"] = "c_read"]
    /\ new_socket' = [new_socket EXCEPT !.first = IF pkt.index = 0 THEN @ ELSE "over"]
    /\ UNCHANGED <<socketServer, conns>>
    /\ UNCHANGED <<bufferManager, calls, mutex, now, interrupt_received, local, nextId,
                   shadow, drawn>>
    /\ UNCHANGED <<sizeBits, matrix, late>>

\* ReadUntilNBytesReceived: if (cbNeeded <= _cbReceived) return true
ReadAlreadyThere ==
    /\ pc["listener"] = "c_read"
    /\ ~Exceeds(loop.cbNeeded, socketServer.cbReceived)
    /\ pc' = [pc EXCEPT !["listener"] = loop.ret]
    /\ UNCHANGED netVars
    /\ UNCHANGED <<bufferManager, calls, mutex, now, interrupt_received, local, nextId,
                   shadow, drawn, lastResponse>>

\* ReadUntilNBytesReceived: if (cbNeeded > _maximumPacketSize) return false
ReadTooLarge ==
    /\ pc["listener"] = "c_read"
    /\ Exceeds(loop.cbNeeded, socketServer.cbReceived)
    /\ Exceeds(loop.cbNeeded, MaximumPacketSize)
    /\ Break("read")
    /\ UNCHANGED <<new_socket, socketServer, loop, conns>>
    /\ UNCHANGED <<bufferManager, calls, mutex, now, interrupt_received, local, nextId,
                   shadow, drawn, lastResponse>>
    /\ UNCHANGED <<sizeBits, matrix, late>>

\* read(socket, _pBuffer + _cbReceived, ...) returned the bytes data:
\* _cbReceived += cbRead
ReceivedAtStart(s, data) ==
    [s EXCEPT !.pBuffer = data \o Bytes(@, Len(data), MaximumPacketSize - Len(data)),
              !.cbReceived = @ + Len(data)]

Received(s, data) ==
    [s EXCEPT !.pBuffer = Bytes(@, 0, s.cbReceived)
                              \o data
                              \o Bytes(@, s.cbReceived + Len(data),
                                       MaximumPacketSize - s.cbReceived - Len(data)),
              !.cbReceived = @ + Len(data)]

\* ReadUntilNBytesReceived: read() returns cbRead > 0 bytes to
\* _pBuffer + _cbReceived; the function returns true once _cbReceived >= cbNeeded
ReadSome ==
    /\ pc["listener"] = "c_read"
    /\ Exceeds(loop.cbNeeded, socketServer.cbReceived)
    /\ ~Exceeds(loop.cbNeeded, MaximumPacketSize)
    /\ new_socket.wire # <<>>
    /\ \E cbRead \in ReadSizes(Len(new_socket.wire), loop.cbNeeded.lo - socketServer.cbReceived) :
          LET received == socketServer.cbReceived
          IN  /\ socketServer' = Received(socketServer, Bytes(new_socket.wire, 0, cbRead))
              /\ new_socket' = [new_socket EXCEPT !.wire =
                                   Bytes(@, cbRead, Len(@) - cbRead)]
              /\ pc' = [pc EXCEPT !["listener"] =
                           IF received + cbRead < loop.cbNeeded.lo THEN "c_read" ELSE loop.ret]
    /\ pkt' = [pkt EXCEPT !.reads = @ + 1, !.cbRead = 1]
    /\ UNCHANGED <<loop, conns>>
    /\ UNCHANGED <<bufferManager, calls, mutex, now, interrupt_received, local, nextId,
                   shadow, drawn, lastResponse>>
    /\ UNCHANGED <<sizeBits, matrix, late>>

\* ReadUntilNBytesReceived: read() returns 0 (the peer has closed) or -1 (the
\* 3 second receive timeout, with nothing sent): return false
ReadFails ==
    /\ pc["listener"] = "c_read"
    /\ Exceeds(loop.cbNeeded, socketServer.cbReceived)
    /\ ~Exceeds(loop.cbNeeded, MaximumPacketSize)
    /\ new_socket.wire = <<>>
    /\ pc' = [pc EXCEPT !["listener"] = "c_break"]
    /\ pkt' = [pkt EXCEPT !.error = "read", !.cbRead = IF new_socket.eof THEN 0 ELSE -1]
    /\ UNCHANGED <<new_socket, socketServer, loop, conns>>
    /\ UNCHANGED <<bufferManager, calls, mutex, now, interrupt_received, local, nextId,
                   shadow, drawn, lastResponse>>
    /\ UNCHANGED <<sizeBits, matrix, late>>

\* ReadUntilNBytesReceived: read() returns -1 with errno EINTR, a signal
\* arrived while it waited: while (cbRead < 0 && errno == EINTR) reads again
ReadInterruptedFails ==
    /\ pc["listener"] = "c_read"
    /\ Exceeds(loop.cbNeeded, socketServer.cbReceived)
    /\ ~Exceeds(loop.cbNeeded, MaximumPacketSize)
    /\ pc' = [pc EXCEPT !["listener"] = "c_break"]
    /\ pkt' = [pkt EXCEPT !.eintr = TRUE, !.error = "read"]
    /\ UNCHANGED <<new_socket, socketServer, loop, conns>>
    /\ UNCHANGED <<bufferManager, calls, mutex, now, interrupt_received, local, nextId,
                   shadow, drawn, lastResponse>>
    /\ UNCHANGED <<sizeBits, matrix, late>>

ReadInterrupted ==
    /\ pc["listener"] = "c_read"
    /\ Exceeds(loop.cbNeeded, socketServer.cbReceived)
    /\ ~Exceeds(loop.cbNeeded, MaximumPacketSize)
    /\ pkt' = [pkt EXCEPT !.eintr = TRUE]
    /\ UNCHANGED <<new_socket, socketServer, loop, conns>>
    /\ UNCHANGED <<bufferManager, calls, mutex, now, interrupt_received, pc, local, nextId,
                   shadow, drawn, lastResponse>>
    /\ UNCHANGED <<sizeBits, matrix, late>>

\* header == COMPRESSED_HEADER_TAG: the sizes are checked and the compressed
\* bytes are read; otherwise command16 == WIFI_COMMAND_PIXELDATA64: the length
\* is checked and the pixels are read; otherwise "Unknown command": break
ClassifyPacket ==
    /\ pc["listener"] = "c_classify"
    /\ LET pBuffer == socketServer.pBuffer
           header  == DWORDFromMemory(pBuffer, 0)
           compressedSize == DWORDFromMemory(pBuffer, 4)
           expandedSize   == DWORDFromMemory(pBuffer, 8)
           command16 == WORDFromMemory(pBuffer, 0)
           length32  == DWORDFromMemory(pBuffer, 4)
           totalExpected == HeaderPlusLeds(length32, sizeBits)
           seen(path) == [pkt EXCEPT !.first4 = Bytes(pBuffer, 0, 4), !.path = path,
                                      !.length32 = IF path = "standard" THEN length32 ELSE @]
       IN  IF header = DWORD(COMPRESSED_HEADER_TAG)
           THEN IF Exceeds(expandedSize, MaximumPacketSize)
                THEN /\ pc' = [pc EXCEPT !["listener"] = "c_break"]
                     /\ pkt' = [seen("compressed") EXCEPT !.error = "size"]
                     /\ UNCHANGED loop
                ELSE /\ pc' = [pc EXCEPT !["listener"] = "c_read"]
                     /\ pkt' = seen("compressed")
                     /\ loop' = [loop EXCEPT !.compressedSize = compressedSize,
                                             !.expandedSize = expandedSize.lo,
                                             !.cbNeeded = AddU32(COMPRESSED_HEADER_SIZE,
                                                                 compressedSize),
                                             !.ret = "c_decompress"]
           ELSE IF command16 = WIFI_COMMAND_PIXELDATA64
                THEN IF Exceeds(totalExpected, MaximumPacketSize)
                     THEN /\ pc' = [pc EXCEPT !["listener"] = "c_break"]
                          /\ pkt' = [seen("standard") EXCEPT !.error = "size"]
                          /\ UNCHANGED loop
                     ELSE /\ pc' = [pc EXCEPT !["listener"] = "c_read"]
                          /\ pkt' = seen("standard")
                          /\ loop' = [loop EXCEPT !.cbNeeded = totalExpected,
                                                  !.payloadLength = totalExpected.lo,
                                                  !.payload = "pBuffer",
                                                  !.ret = "c_process"]
                ELSE /\ pc' = [pc EXCEPT !["listener"] = "c_break"]
                     /\ pkt' = [seen("unknown") EXCEPT !.error = "command"]
                     /\ UNCHANGED loop
    /\ UNCHANGED <<new_socket, socketServer, conns>>
    /\ UNCHANGED <<bufferManager, calls, mutex, now, interrupt_received, local, nextId,
                   shadow, drawn, lastResponse>>
    /\ UNCHANGED <<sizeBits, matrix, late>>

\* DecompressBuffer(&_pBuffer[COMPRESSED_HEADER_SIZE], compressedSize,
\*                  _abOutputBuffer.get(), expandedSize).  held: the bytes of
\* _pBuffer the call may read; with a compressedSize beyond them, inflate
\* wanting more input reads past the end of _pBuffer ("c_overread").
Decompress ==
    /\ pc["listener"] = "c_decompress"
    /\ LET room == MaximumPacketSize - COMPRESSED_HEADER_SIZE
           held == IF Exceeds(loop.compressedSize, room) THEN room ELSE loop.compressedSize.lo
           r == DecompressBuffer(Bytes(socketServer.pBuffer, COMPRESSED_HEADER_SIZE, held),
                                 held, loop.expandedSize)
       IN  /\ socketServer' =
                 [socketServer EXCEPT !.abOutputBuffer =
                     r.out \o Bytes(@, Len(r.out), MaximumPacketSize - Len(r.out))]
           /\ CASE r.result = "true" ->
                     /\ pc' = [pc EXCEPT !["listener"] = "c_process"]
                     /\ loop' = [loop EXCEPT !.payloadLength = loop.expandedSize,
                                             !.payload = "abOutputBuffer"]
                     /\ UNCHANGED pkt
                [] r.result = "false" ->
                     /\ Break("decompress")
                     /\ UNCHANGED loop
                [] r.result = "spin" ->
                     /\ pc' = [pc EXCEPT !["listener"] =
                                  IF Exceeds(loop.compressedSize, room)
                                  THEN "c_overread" ELSE "c_spin"]
                     /\ UNCHANGED <<loop, pkt>>
    /\ UNCHANGED <<new_socket, conns>>
    /\ UNCHANGED <<bufferManager, calls, mutex, now, interrupt_received, local, nextId,
                   shadow, drawn, lastResponse>>
    /\ UNCHANGED <<sizeBits, matrix, late>>

\* ProcessIncomingData(bufferManager, payload, payloadLength); on true
\* ResetReadBuffer() and bSendResponsePacket = true, on false break.  When the
\* LEDBuffer constructor is handed a count beyond the payload, vector::assign
\* throws std::length_error, which nothing catches: the process terminates
\* ("c_crash").
ProcessPacket ==
    /\ pc["listener"] = "c_process"
    /\ LET payloadData == IF loop.payload = "pBuffer"
                          THEN socketServer.pBuffer
                          ELSE socketServer.abOutputBuffer
           r == ProcessIncomingData(bufferManager, payloadData, loop.payloadLength,
                                    nextId + 1, sizeBits)
       IN  IF r.overrun
           THEN /\ pc' = [pc EXCEPT !["listener"] = "c_crash"]
                /\ UNCHANGED <<bufferManager, nextId, socketServer, loop, pkt>>
           ELSE IF r.ret
           THEN /\ bufferManager' = r.mgr
                /\ nextId' = IF r.pushed = NullPtr THEN nextId ELSE nextId + 1
                /\ socketServer' = ResetReadBuffer(socketServer)
                /\ loop' = [loop EXCEPT !.bSendResponsePacket = TRUE]
                /\ pkt' = [pkt EXCEPT !.pushed = r.pushed]
                /\ pc' = [pc EXCEPT !["listener"] = "c_respond"]
           ELSE /\ Break("process")
                /\ UNCHANGED <<bufferManager, nextId, socketServer, loop>>
    /\ UNCHANGED <<new_socket, conns>>
    /\ UNCHANGED <<calls, mutex, now, interrupt_received, local, shadow, drawn, lastResponse>>
    /\ UNCHANGED <<sizeBits, matrix, late>>

\* ResetReadBuffer(); if (bSendResponsePacket) the SocketResponse is built and
\* written; } while (true)
SendNoResponse ==
    /\ pc["listener"] = "c_respond"
    /\ socketServer' = ResetReadBuffer(socketServer)
    /\ pc' = [pc EXCEPT !["listener"] = "c_top"]
    /\ UNCHANGED <<new_socket, loop, pkt, conns>>
    /\ UNCHANGED <<bufferManager, calls, mutex, now, interrupt_received, local, nextId,
                   shadow, drawn, lastResponse>>
    /\ UNCHANGED <<sizeBits, matrix, late>>

SendResponse ==
    /\ pc["listener"] = "c_respond"
    /\ socketServer' = ResetReadBuffer(socketServer)
    /\ IF loop.bSendResponsePacket
       THEN /\ lastResponse' = [ written      |-> TRUE,
                                 currentClock |-> now,
                                 oldestPacket |-> AgeOfOldestBuffer(bufferManager, now),
                                 newestPacket |-> AgeOfNewestBuffer(bufferManager, now),
                                 bufferSize   |-> Capacity(bufferManager),
                                 bufferPos    |-> Size(bufferManager) ]
            /\ pkt' = [pkt EXCEPT !.responded = TRUE]
            /\ new_socket' = [new_socket EXCEPT !.responses = @ + 1]
       ELSE UNCHANGED <<lastResponse, pkt, new_socket>>
    /\ pc' = [pc EXCEPT !["listener"] = "c_top"]
    /\ UNCHANGED <<loop, conns>>
    /\ UNCHANGED <<bufferManager, calls, mutex, now, interrupt_received, local, nextId,
                   shadow, drawn>>
    /\ UNCHANGED <<sizeBits, matrix, late>>

\* after the do-while: close(new_socket); ResetReadBuffer(); sleep(1)
LeaveConnectionOpen ==
    /\ pc["listener"] = "c_break"
    /\ socketServer' = ResetReadBuffer(socketServer)
    /\ pc' = [pc EXCEPT !["listener"] = "c_accept"]
    /\ UNCHANGED <<new_socket, loop, pkt, conns>>
    /\ UNCHANGED <<bufferManager, calls, mutex, now, interrupt_received, local, nextId,
                   shadow, drawn, lastResponse>>
    /\ UNCHANGED <<sizeBits, matrix, late>>

CloseConnection ==
    /\ pc["listener"] = "c_break"
    /\ new_socket' = [new_socket EXCEPT !.state = "closed", !.wire = <<>>]
    /\ socketServer' = ResetReadBuffer(socketServer)
    /\ pc' = [pc EXCEPT !["listener"] = "c_accept"]
    /\ UNCHANGED <<loop, pkt, conns>>
    /\ UNCHANGED <<bufferManager, calls, mutex, now, interrupt_received, local, nextId,
                   shadow, drawn, lastResponse>>
    /\ UNCHANGED <<sizeBits, matrix, late>>

ListenerNext ==
    \/ AcceptConnection
    \/ SetupFails
    \/ AcceptInterrupted
    \/ PeerSends
    \/ PeerCloses
    \/ LoopTop
    \/ ReadAlreadyThere
    \/ ReadTooLarge
    \/ ReadSome
    \/ ReadFails
    \/ ReadInterrupted
    \/ ClassifyPacket
    \/ Decompress
    \/ ProcessPacket
    \/ SendResponse
    \/ CloseConnection
    \/ InterruptHandler

ListenerSpec == ListenerInit /\ [][ListenerNext]_vars

\* ---------------------------------------------------- DrawSpec: actions
\* (RunDrawLoop on its own, over a ring that already holds frames of any
\* pixel count DrawFrame can be handed, with every pixel stepped through.)

\* the ring after the frames of these pixel counts were pushed, all due
RECURSIVE RingOf(_, _)
RingOf(counts, i) ==
    IF i = 0 THEN NewLEDBufferManager(MaxBuffers)
    ELSE PushNewBuffer(RingOf(counts, i - 1), LEDBuffer(i, Pixels(counts[i]), 0, 0))

DrawInit ==
    /\ \E k \in 0..(MaxBuffers - 1) :
          \E counts \in [1..k -> 0..(MaxLEDs + 1)] :
             /\ bufferManager = RingOf(counts, k)
             /\ shadow = RingOf(counts, k)
             /\ nextId = k
    /\ calls = <<>>
    /\ mutex = [owner |-> "none", count |-> 0]
    /\ now = 0
    /\ interrupt_received = FALSE
    /\ pc = [t \in Threads |-> IF t = "pacer" THEN "d_loop" ELSE "none"]
    /\ local = [t \in Threads |-> IdleLocal]
    /\ drawn = <<>>
    /\ lastResponse = NoResponse
    /\ NetInit
    /\ sizeBits = 64
    /\ matrix = NewMatrix
    /\ late = {}

\* while (!interrupt_received)
DrawLoop ==
    /\ pc["pacer"] = "d_loop"
    /\ Goto("pacer", IF interrupt_received THEN "d_done" ELSE "d_test")
    /\ UNCHANGED <<bufferManager, calls, mutex, now, interrupt_received, local, nextId,
                   shadow, drawn, lastResponse>>
    /\ UNCHANGED netVars

\* while (AgeOfOldestBuffer() <= 0) { buffer = PopOldestBuffer();
\* if (!buffer.has_value()) continue;
DrawPop ==
    /\ pc["pacer"] = "d_test"
    /\ AgeOfOldestBuffer(bufferManager, now) <= 0
    /\ LET r == PopOldestBuffer(bufferManager)
       IN  /\ bufferManager' = r.mgr
           /\ shadow' = r.mgr
           /\ local' = [local EXCEPT !["pacer"].res = r.result]
           /\ Goto("pacer", IF r.result = NullPtr THEN "d_test" ELSE "d_draw")
    /\ UNCHANGED <<calls, mutex, now, interrupt_received, nextId, drawn, lastResponse>>
    /\ UNCHANGED netVars

\* DrawFrame(buffer.value(), matrix): an exception leaves RunDrawLoop and
\* main uncaught (std::terminate); a faulting read ends the process too.
DrawPopped ==
    /\ pc["pacer"] = "d_draw"
    /\ \E beyond \in Beyond :
          LET r == DrawFrame(local["pacer"].res, matrix, beyond)
          IN  /\ matrix' = r.matrix
              /\ Goto("pacer", IF r.thrown THEN "d_fatal"
                               ELSE IF r.fault THEN "d_crash" ELSE "d_test")
    /\ drawn' = Append(drawn, local["pacer"].res)
    /\ UNCHANGED <<bufferManager, calls, mutex, now, interrupt_received, local, nextId,
                   shadow, lastResponse>>
    /\ UNCHANGED <<new_socket, socketServer, loop, pkt, conns, sizeBits, late>>

\* the inner loop ends: delay = min(kMaximumWait, age * MICROS_PER_SECOND);
\* if (delay > 0) sleep_for(delay)
DrawSleep ==
    /\ pc["pacer"] = "d_test"
    /\ AgeOfOldestBuffer(bufferManager, now) > 0
    /\ LET delay == Min(kMaximumWait, AgeOfOldestBuffer(bufferManager, now))
       IN  /\ Goto("pacer", IF delay > 0 THEN "d_sleep" ELSE "d_loop")
           /\ local' = [local EXCEPT !["pacer"].wake = now + delay]
    /\ UNCHANGED <<bufferManager, calls, mutex, now, interrupt_received, nextId,
                   shadow, drawn, lastResponse>>
    /\ UNCHANGED netVars

\* sleep_for returns after the delay
DrawWake ==
    /\ pc["pacer"] = "d_sleep"
    /\ now' = local["pacer"].wake
    /\ now' <= MaxClock * kMaximumWait
    /\ Goto("pacer", "d_loop")
    /\ UNCHANGED <<bufferManager, calls, mutex, interrupt_received, local, nextId,
                   shadow, drawn, lastResponse>>
    /\ UNCHANGED netVars

DrawNext ==
    \/ DrawLoop
    \/ DrawPop
    \/ DrawPopped
    \/ DrawSleep
    \/ DrawWake
    \/ InterruptHandler

DrawSpec == DrawInit /\ [][DrawNext]_vars

\* ------------------------------------------- PaceSpec: pacing and shutdown
\* RunDrawLoop and ProcessIncomingConnectionsLoop with every LEDBufferManager
\* call taken as one step (each holds _mutex from its first statement to its
\* last), and with the scheduling the threads get: a thread that can take a
\* step of its own takes it, and time passes.  What the peer and the operator
\* do (connect, send, go silent, signal) is up to them.

\* the clock reading after which no frame of Stamps can become due any more
ClockCap == MaxClock * TickMicros

PaceInit ==
    /\ bufferManager = NewLEDBufferManager(MaxBuffers)
    /\ shadow = NewLEDBufferManager(MaxBuffers)
    /\ calls = <<>>
    /\ mutex = [owner |-> "none", count |-> 0]
    /\ now = 0
    /\ interrupt_received = FALSE
    /\ pc = [t \in Threads |-> IF t = "pacer" THEN "r_loop" ELSE "a_loop"]
    /\ local = [t \in Threads |-> IdleLocal]
    /\ nextId = 0
    /\ drawn = <<>>
    /\ lastResponse = NoResponse
    /\ NetInit
    /\ sizeBits = 64
    /\ matrix = NewMatrix
    /\ late = {}

\* RunDrawLoop: while (!interrupt_received)
PaceLoop ==
    /\ pc["pacer"] = "r_loop"
    /\ Goto("pacer", IF interrupt_received THEN "r_done" ELSE "r_test")
    /\ UNCHANGED <<bufferManager, calls, mutex, now, interrupt_received, local, nextId,
                   shadow, drawn, lastResponse>>
    /\ UNCHANGED netVars

\* while (bufferManager.AgeOfOldestBuffer() <= 0)
PaceTest ==
    /\ pc["pacer"] = "r_test"
    /\ Goto("pacer", IF AgeOfOldestBuffer(bufferManager, now) <= 0 THEN "r_pop" ELSE "r_delay")
    /\ UNCHANGED <<bufferManager, calls, mutex, now, interrupt_received, local, nextId,
                   shadow, drawn, lastResponse>>
    /\ UNCHANGED netVars

\* buffer = PopOldestBuffer(); if (!buffer.has_value()) continue;
\* (burnExtraFrames is false) DrawFrame(buffer.value(), matrix); and back to
\* the inner loop's test
PacePopDroppingLate ==
    /\ pc["pacer"] = "r_pop"
    /\ LET r == PopOldestBuffer(bufferManager)
       IN  /\ bufferManager' = r.mgr
           /\ shadow' = r.mgr
           /\ drawn' = IF r.result = NullPtr \/ EffectiveTime(r.result) < now
                       THEN drawn
                       ELSE Append(drawn, r.result)
    /\ Goto("pacer", "r_test")
    /\ UNCHANGED <<calls, mutex, now, interrupt_received, local, nextId, lastResponse>>
    /\ UNCHANGED netVars

PacePop ==
    /\ pc["pacer"] = "r_pop"
    /\ LET r == PopOldestBuffer(bufferManager)
       IN  /\ bufferManager' = r.mgr
           /\ shadow' = r.mgr
           /\ drawn' = IF r.result = NullPtr THEN drawn ELSE Append(drawn, r.result)
    /\ Goto("pacer", "r_test")
    /\ UNCHANGED <<calls, mutex, now, interrupt_received, local, nextId, lastResponse>>
    /\ UNCHANGED netVars

\* delay = min(kMaximumWait, AgeOfOldestBuffer() * MICROS_PER_SECOND);
\* if (delay > 0) sleep_for(delay).  local.wake is the time left to sleep.
PaceDelayAlways ==
    /\ pc["pacer"] = "r_delay"
    /\ LET delay == Min(kMaximumWait, AgeOfOldestBuffer(bufferManager, now))
       IN  /\ Goto("pacer", "r_sleep")
           /\ local' = [local EXCEPT !["pacer"].wake = IF delay > 0 THEN delay ELSE TickMicros]
    /\ UNCHANGED <<bufferManager, calls, mutex, now, interrupt_received, nextId,
                   shadow, drawn, lastResponse>>
    /\ UNCHANGED netVars

PaceDelay ==
    /\ pc["pacer"] = "r_delay"
    /\ LET delay == Min(kMaximumWait, AgeOfOldestBuffer(bufferManager, now))
       IN  IF delay > 0
           THEN /\ Goto("pacer", "r_sleep")
                /\ local' = [local EXCEPT !["pacer"].wake = delay]
           ELSE /\ Goto("pacer", "r_loop")
                /\ UNCHANGED local
    /\ UNCHANGED <<bufferManager, calls, mutex, now, interrupt_received, nextId,
                   shadow, drawn, lastResponse>>
    /\ UNCHANGED netVars

\* sleep_for returns once the delay has passed
PaceWake ==
    /\ pc["pacer"] = "r_sleep"
    /\ local["pacer"].wake = 0
    /\ Goto("pacer", "r_loop")
    /\ UNCHANGED <<bufferManager, calls, mutex, now, interrupt_received, local, nextId,
                   shadow, drawn, lastResponse>>
    /\ UNCHANGED netVars

\* ProcessIncomingConnectionsLoop: while (!interrupt_received), then accept()
PaceListen ==
    /\ pc["listener"] = "a_loop"
    /\ Goto("listener", IF interrupt_received THEN "a_done" ELSE "a_accept")
    /\ UNCHANGED <<bufferManager, calls, mutex, now, interrupt_received, local, nextId,
                   shadow, drawn, lastResponse>>
    /\ UNCHANGED netVars

\* accept() returns when a peer connects; the do-while starts
PaceAccept ==
    /\ pc["listener"] = "a_accept"
    /\ Goto("listener", "a_read")
    /\ UNCHANGED <<bufferManager, calls, mutex, now, interrupt_received, local, nextId,
                   shadow, drawn, lastResponse>>
    /\ UNCHANGED netVars

\* accept() returns an error (a signal handled on this thread without
\* SA_RESTART is one cause): continue
PaceAcceptFails ==
    /\ pc["listener"] = "a_accept"
    /\ Goto("listener", "a_loop")
    /\ UNCHANGED <<bufferManager, calls, mutex, now, interrupt_received, local, nextId,
                   shadow, drawn, lastResponse>>
    /\ UNCHANGED netVars

\* a PIXELDATA64 packet is read; ProcessIncomingData pushes
\* CreateFromWire(...), whatever its timestamp; the response is written and
\* the do-while goes round
PaceArrive ==
    /\ pc["listener"] = "a_read"
    /\ nextId < MaxFrames
    /\ \E ts \in Stamps :
         LET frame == LEDBuffer(nextId + 1, <<>>, ts.seconds, ts.micros)
         IN  /\ bufferManager' = PushNewBuffer(bufferManager, frame)
             /\ shadow' = PushNewBuffer(bufferManager, frame)
             /\ late' = IF EffectiveTime(frame) < now THEN late \cup {frame.id} ELSE late
    /\ nextId' = nextId + 1
    /\ UNCHANGED <<calls, mutex, now, interrupt_received, pc, local, drawn, lastResponse>>
    /\ UNCHANGED <<new_socket, socketServer, loop, pkt, conns, sizeBits, matrix>>

\* a read fails (the peer closed, a timeout, an error) or a packet is refused:
\* break, close(new_socket), and the outer loop goes round
PaceDisconnect ==
    /\ pc["listener"] = "a_read"
    /\ Goto("listener", "a_loop")
    /\ UNCHANGED <<bufferManager, calls, mutex, now, interrupt_received, local, nextId,
                   shadow, drawn, lastResponse>>
    /\ UNCHANGED netVars

\* time passes: a sleeper's remaining time runs down.  The clock reading stops
\* at ClockCap, where every frame of Stamps is due and stays so.
PaceTick ==
    /\ now' = Min(now + TickMicros, ClockCap)
    /\ local' = [local EXCEPT !["pacer"].wake =
                    IF local["pacer"].wake > TickMicros
                    THEN local["pacer"].wake - TickMicros
                    ELSE 0]
    /\ UNCHANGED <<bufferManager, calls, mutex, interrupt_received, pc, nextId,
                   shadow, drawn, lastResponse>>
    /\ UNCHANGED netVars

PaceNext ==
    \/ PaceLoop
    \/ PaceTest
    \/ PacePop
    \/ PaceDelay
    \/ PaceWake
    \/ PaceListen
    \/ PaceAccept
    \/ PaceAcceptFails
    \/ PaceArrive
    \/ PaceDisconnect
    \/ PaceTick
    \/ InterruptHandler

\* the Pacer thread and the clock are never held back; the Listener's own
\* steps are the test of the flag at the top of its loop and the return of a
\* read, with data or, by the 3 second SO_RCVTIMEO at the latest, without.
\* accept() has no timeout: it returns when a peer connects.
PaceFairness ==
    /\ WF_vars(PaceLoop)
    /\ WF_vars(PaceTest)
    /\ WF_vars(PacePop)
    /\ WF_vars(PaceDelay)
    /\ WF_vars(PaceWake)
    /\ WF_vars(PaceListen)
    /\ WF_vars(PaceArrive \/ PaceDisconnect)
    /\ WF_vars(PaceTick)

PaceSpec == PaceInit /\ [][PaceNext]_vars /\ PaceFairness

\* ---------------------------------------------- ExitSpec: main's last lines
\* PaceSpec's two loops, and what main does once RunDrawLoop has returned.
\* The thread that runs ProcessIncomingConnectionsLoop is detached: main
\* neither joins it nor waits for it.  The "pacer" thread is main's.

\* socketServer.end(): close(_server_fd), _server_fd = -1; delete matrix
MainEnd ==
    /\ pc["pacer"] = "r_done"
    /\ Goto("pacer", "m_return")
    /\ matrix' = [matrix EXCEPT !.canvas = <<>>]
    /\ UNCHANGED <<bufferManager, calls, mutex, now, interrupt_received, local, nextId,
                   shadow, drawn, lastResponse>>
    /\ UNCHANGED <<new_socket, socketServer, loop, pkt, conns, sizeBits, late>>

\* return 0: the locals of main are destroyed, socketServer (its _pBuffer and
\* _abOutputBuffer are freed) and then bufferManager (its frames are freed)
MainReturn ==
    /\ pc["pacer"] = "m_return"
    /\ Goto("pacer", "m_destroyed")
    /\ bufferManager' = [bufferManager EXCEPT
                            !.aptrBuffers = [i \in DOMAIN @ |-> NullPtr]]
    /\ UNCHANGED <<calls, mutex, now, interrupt_received, local, nextId,
                   shadow, drawn, lastResponse>>
    /\ UNCHANGED netVars

\* the C runtime calls exit() with main's result: the process and every
\* thread of it end
ProcessExit ==
    /\ pc["pacer"] = "m_destroyed"
    /\ pc' = [t \in Threads |-> "exited"]
    /\ UNCHANGED <<bufferManager, calls, mutex, now, interrupt_received, local, nextId,
                   shadow, drawn, lastResponse>>
    /\ UNCHANGED netVars

\* the Listener, inside its do-while, touches what main has destroyed and the
\* process is killed for it; the other outcome of such an access is that it
\* goes through on the memory left behind, which is the step of PaceSpec
ListenerFaults ==
    /\ pc["pacer"] = "m_destroyed"
    /\ pc["listener"] = "a_read"
    /\ pc' = [t \in Threads |-> "killed"]
    /\ UNCHANGED <<bufferManager, calls, mutex, now, interrupt_received, local, nextId,
                   shadow, drawn, lastResponse>>
    /\ UNCHANGED netVars

ExitNext ==
    \/ PaceLoop
    \/ PaceTest
    \/ PacePop
    \/ PaceDelay
    \/ PaceWake
    \/ PaceListen
    \/ PaceAccept
    \/ PaceAcceptFails
    \/ PaceArrive
    \/ PaceDisconnect
    \/ PaceTick
    \/ InterruptHandler
    \/ MainEnd
    \/ MainReturn
    \/ ProcessExit
    \/ ListenerFaults

ExitSpec == PaceInit /\ [][ExitNext]_vars

\* ------------------------------------------------ WireSpec: CreateFromWire
\* LEDBuffer::CreateFromWire applied to the bytes of one valid standard
\* PIXELDATA64 packet, as ProcessIncomingData applies it.

\* timestamps a sender writes: seconds since 1970 and microseconds
WireSeconds == {0, 1, 65536, 1762041600}
WireMicros == {0, 20000, 999999}

\* colour bytes a sender writes for n pixels
WirePixels(n, k) == [i \in 1..(n * LED_DATA_SIZE) |-> (k * i + n) % 256]
WirePatterns == {1, 7, 85}

WireInit ==
    /\ \E n \in 0..MaxLEDs, seconds \in WireSeconds, micros \in WireMicros,
          k \in WirePatterns, channel16 \in {0, 1} :
          /\ socketServer = [NewSocketServer EXCEPT
                 !.pBuffer = StandardPacket(WIFI_COMMAND_PIXELDATA64, channel16, n,
                                            seconds, micros, WirePixels(n, k)),
                 !.cbReceived = STANDARD_DATA_HEADER_SIZE + n * LED_DATA_SIZE]
          /\ loop = [IdleLoop EXCEPT !.payload = "pBuffer",
                        !.payloadLength = STANDARD_DATA_HEADER_SIZE + n * LED_DATA_SIZE]
    /\ \E bits \in SizeBits : sizeBits = bits
    /\ bufferManager = NewLEDBufferManager(MaxBuffers)
    /\ shadow = NewLEDBufferManager(MaxBuffers)
    /\ calls = <<>>
    /\ mutex = [owner |-> "none", count |-> 0]
    /\ now = 0
    /\ interrupt_received = FALSE
    /\ pc = [t \in Threads |-> IF t = "listener" THEN "w_parse" ELSE "none"]
    /\ local = [t \in Threads |-> IdleLocal]
    /\ nextId = 0
    /\ drawn = <<>>
    /\ lastResponse = NoResponse
    /\ new_socket = NoSocket
    /\ pkt = NoPacket(0, 0)
    /\ conns = 0
    /\ matrix = NewMatrix
    /\ late = {}

\* auto pBuffer = LEDBuffer::CreateFromWire(span(payloadData, payloadLength))
WireParse ==
    /\ pc["listener"] = "w_parse"
    /\ LET r == CreateFromWire(socketServer.pBuffer, loop.payloadLength, nextId + 1, sizeBits)
       IN  /\ pkt' = [pkt EXCEPT !.pushed = r.frame,
                                 !.error = IF r.thrown \/ r.overrun THEN "parse" ELSE "none"]
           /\ nextId' = IF r.frame = NullPtr THEN nextId ELSE nextId + 1
    /\ pc' = [pc EXCEPT !["listener"] = "w_done"]
    /\ UNCHANGED <<bufferManager, calls, mutex, now, interrupt_received, local,
                   shadow, drawn, lastResponse>>
    /\ UNCHANGED <<new_socket, socketServer, loop, conns, sizeBits, matrix, late>>

WireNext == WireParse

WireSpec == WireInit /\ [][WireNext]_vars

\* ------------------------------------------------------ claims: BufferSpec

\* the history is k pushes followed only by pops
PushesThenPops ==
    \A i \in 1..Len(calls) : (i <= Len(PushCalls)) <=> (calls[i].op = "push")

\* C1: after k consecutive pushes on an empty manager of capacity C, with no pop
\* in between, Size() is min(k, C) and the following pops return exactly the last
\* min(k, C) pushed frames, in push order.
C1_PushesThenPops ==
    LET k == Len(PushCalls)
        n == Min(k, Capacity(bufferManager))
    IN  PushesThenPops =>
          /\ (Len(PopCalls) = 0 => Size(bufferManager) = n)
          /\ \A i \in 1..Len(PopCalls) :
                PopCalls[i].result = IF i <= n THEN Pushed[k - n + i] ELSE NullPtr

\* C2: in every state reached by pushes and pops, 0 <= Size() <= capacity.
C2_SizeWithinCapacity ==
    /\ 0 <= Size(bufferManager)
    /\ Size(bufferManager) <= Capacity(bufferManager)

\* C2 witness: pushes have stepped over a frame, a pop has returned one, and
\* frames are still enqueued.
C2_Witness ==
    /\ Dropped # {}
    /\ Len(Popped) > 0
    /\ Size(bufferManager) > 0

\* C3: every frame ever pushed is in exactly one of: returned by a pop, currently
\* enqueued, evicted by a push into a full buffer (Size() = capacity); no frame
\* is returned twice.
C3_FramesPartitioned ==
    /\ \A i \in 1..Len(Pushed) :
          LET f == Pushed[i]
              holders == (IF f \in Range(Popped) THEN 1 ELSE 0)
                       + (IF f \in Range(Enqueued(bufferManager)) THEN 1 ELSE 0)
                       + (IF f \in DroppedWhenFull THEN 1 ELSE 0)
          IN  holders = 1
    /\ \A i, j \in 1..Len(Popped) : Popped[i] = Popped[j] => i = j

\* C4: PopOldestBuffer returns frames in the order they were pushed, whatever
\* their timestamps (a frame's id is its position in the push order).
C4_PopInPushOrder ==
    \A i, j \in 1..Len(Popped) :
        /\ Popped[i].id \in 1..Len(Pushed)
        /\ Popped[i] = Pushed[Popped[i].id]
        /\ i < j => Popped[i].id < Popped[j].id

\* C4 witness: two frames were popped in push order although the first is
\* stamped later than the second.
C4_Witness ==
    \E i, j \in 1..Len(Popped) :
        i < j /\ EffectiveTime(Popped[i]) > EffectiveTime(Popped[j])

C6_Linearizable ==
    /\ mutex.count = 0 => bufferManager = shadow
    /\ \A t \in Threads :
          pc[t] \notin OpLabels =>
             /\ local[t].res = local[t].expected
             /\ local[t].enqueued

\* C6 witness: the Listener's push waits for the mutex while the Pacer is in
\* the middle of a pop, after an earlier pop has handed a frame to DrawFrame.
C6_Witness ==
    /\ mutex.owner = "pacer"
    /\ pc["pacer"] = "pop_advance"
    /\ pc["listener"] = "lock"
    /\ local["listener"].op = "push"
    /\ Len(drawn) >= 1

\* C7: every frame the Pacer pops and draws is due: its effective time is not
\* later than the clock at the moment it is popped.
C7_PoppedFramesDue ==
    (pc["pacer"] = "p_popped" /\ local["pacer"].res # NullPtr)
        => EffectiveTime(local["pacer"].res) <= local["pacer"].t

\* ---------------------------------------------------- claims: ListenerSpec

\* C8: a packet whose first four bytes on the wire are 0x44 0x41 0x56 0x45
\* ("DAVE") is classified as the compressed variant and takes the
\* decompression path; no other leading four bytes take that path.
C8_DaveTagIsCompressed ==
    pkt.path # "none" => (pkt.path = "compressed" <=> pkt.first4 = DAVE)

\* the first packet of the connection was sent as `name`, its header has been
\* read, and the iteration that handles it is over
FirstPacketDone(name) ==
    /\ new_socket.first = name
    /\ pkt.index = 1
    /\ pkt.path # "none"
    /\ pc["listener"] = "c_top" \/ pkt.error # "none"

\* the frame of standard packet P was pushed, the response was sent and the
\* connection is still open
HandledAs(P) ==
    /\ pkt.error = "none"
    /\ pkt.pushed = CreateFromWire(P, Len(P), pkt.pushed.id, sizeBits).frame
    /\ pkt.pushed # NullPtr
    /\ pkt.responded
    /\ lastResponse.written
    /\ new_socket.state = "open"

\* C9: for every valid standard PIXELDATA64 packet P, sending P deflated behind
\* a 16 byte compressed header (tag bytes "DAVE", compressed size the length of
\* the deflated body, expanded size the length of P) ends as sending P
\* uncompressed does: the same frame is pushed and a status response is sent.
C9_CompressedSameAsStandard ==
    \A name \in DOMAIN ValidStandard :
        (FirstPacketDone(name) \/ FirstPacketDone(Wrapped(name)))
            => HandledAs(ValidStandard[name])

\* the same with the bytes of COMPRESSED_HEADER_TAG in front instead
TagWrappedSameAsStandard ==
    \A name \in DOMAIN ValidStandard :
        (FirstPacketDone(name) \/ FirstPacketDone(WrappedTag(name)))
            => HandledAs(ValidStandard[name])

C11_ChannelMismatchKeepsConnection ==
    FirstPacketDone("chan2") =>
        /\ pkt.pushed = NullPtr
        /\ pkt.error = "none"
        /\ pc["listener"] = "c_top"
        /\ new_socket.state = "open"

\* the well-formed standard PIXELDATA64 packets sent with the various masks
ChannelPackets == {"std0", "full", "chan2", "chan3", "chanTop", "chanAll"}

\* the channel mask a packet carries
ChannelOf(name) == WORDFromMemory(Packets[name], 2)

\* C12: whatever its 16 bit channel mask ch, a well-formed PIXELDATA64 packet
\* results in a frame being pushed if and only if ch = 0 or ch has bit 0 set.
C12_ChannelFilter ==
    \A name \in ChannelPackets :
        FirstPacketDone(name) =>
            ((pkt.pushed # NullPtr) <=> (ChannelOf(name) = 0 \/ ChannelOf(name) % 2 = 1))

\* C12 witness: the packet with mask 0xFFFF was handled and its frame is in the
\* ring.
C12_Witness ==
    /\ FirstPacketDone("chanAll")
    /\ pkt.pushed # NullPtr
    /\ pkt.pushed \in Range(Enqueued(bufferManager))

\* the pixel count of the standard header being handled promises more bytes
\* than the Listener's maximum packet size
PromisesTooMuch ==
    /\ pkt.path = "standard"
    /\ Exceeds(HeaderPlusLeds(pkt.length32, 64), MaximumPacketSize)

\* C13: for every 32 bit pixel_count in a standard header, the total being
\* computed in the program's integer width: if 24 + 3 * pixel_count exceeds the
\* maximum packet size, the connection is aborted before any payload byte is
\* read and no frame is pushed; and a frame is never made of more than the
\* pixel_count * 3 bytes that lie inside the received region.
C13_OversizeCountAborted ==
    /\ PromisesTooMuch =>
          /\ pc["listener"] \in {"c_break", "c_accept", "c_done"}
          /\ socketServer.cbReceived <= STANDARD_DATA_HEADER_SIZE
          /\ pkt.pushed = NullPtr
    /\ pc["listener"] # "c_crash"
    /\ (pkt.path = "standard" /\ pkt.pushed # NullPtr) =>
          /\ pkt.length32.hi = 0
          /\ Len(pkt.pushed.leds) = pkt.length32.lo * LED_DATA_SIZE

\* the same on a build whose size_t has 64 bits
OversizeCountAborted64 == sizeBits = 64 => C13_OversizeCountAborted

\* C14: every frame held in the ring has as many pixels as the matrix
\* (width x height): the Listener rejects at parse time every packet whose
\* pixel_count differs from that, smaller as well as larger.
C14_FramesMatchMatrix ==
    /\ \A f \in Range(Enqueued(bufferManager)) : PixelCount(f) = MaxLEDs
    /\ pkt.pushed # NullPtr => PixelCount(pkt.pushed) = MaxLEDs
\* the frame handed to the last DrawFrame call
LastDrawn == drawn[Len(drawn)]

\* the last DrawFrame call has returned or ended the process
DrawFrameOver == drawn # <<>> /\ pc["pacer"] # "d_draw"

\* C15: DrawFrame writes pixels only when the frame has exactly
\* width * height pixels; for any other count, smaller or larger, it writes
\* nothing, reads no pixel index the frame does not have, and the Pacer loop
\* is aborted with a fatal error.
C15_DrawFrameRequiresExactSize ==
    (DrawFrameOver /\ PixelCount(LastDrawn) # MatrixWidth * MatrixHeight) =>
        /\ matrix.canvas = NewMatrix.canvas
        /\ matrix.outside = {}
        /\ pc["pacer"] = "d_fatal"

\* the half of C15 the code keeps: a frame larger than the matrix
LargerFrameIsFatal ==
    (DrawFrameOver /\ PixelCount(LastDrawn) > MatrixWidth * MatrixHeight) =>
        /\ matrix.outside = {}
        /\ pc["pacer"] = "d_fatal"
\* ReadUntilNBytesReceived returns true
ReadReturnsTrue ==
    pc["listener"] = "c_read" /\ pc'["listener"] \notin {"c_read", "c_break"}

\* while the first packet of a connection is being handled, the bytes
\* received followed by the bytes still on the wire begin with that packet
InArrivalOrder ==
    (pkt.index = 1 /\ new_socket.sent >= 1
       /\ pc["listener"] \in {"c_read", "c_classify", "c_decompress", "c_process"}) =>
        LET got == Bytes(socketServer.pBuffer, 0, socketServer.cbReceived) \o new_socket.wire
            P   == Packets[new_socket.first]
        IN  Len(got) >= Len(P) /\ Bytes(got, 0, Len(P)) = P

\* however its bytes were split over reads, a valid standard packet ends
\* with its frame pushed and the response sent
SegmentedAsWhole ==
    \A name \in DOMAIN ValidStandard : FirstPacketDone(name) => HandledAs(ValidStandard[name])

\* C16: ReadUntilNBytesReceived(needed) returns success only when the read
\* buffer holds at least needed bytes; the bytes of any number of short reads
\* are accumulated contiguously at offset _cbReceived in arrival order, and a
\* header delivered in several segments is processed exactly as one
\* delivered whole.
C16_ShortReadsAccumulate ==
    /\ [](InArrivalOrder /\ SegmentedAsWhole)
    /\ [][ReadReturnsTrue => ~Exceeds(loop.cbNeeded, socketServer'.cbReceived)]_vars

\* C16 witness: a 24-byte packet arrived in more than one read and its frame
\* was pushed.
C16_Witness ==
    /\ FirstPacketDone("std0")
    /\ pkt.reads >= 2
    /\ HandledAs(Std0)
\* a read() of the packet in hand returns -1 with errno EINTR
InterruptedRead == ~pkt.eintr /\ pkt'.eintr

\* C17: in ReadUntilNBytesReceived a read that returns 0, or a negative value
\* with an error other than EINTR (the 3 second receive timeout included),
\* makes the call fail and the connection be aborted; a read interrupted by
\* EINTR is retried with _cbReceived unchanged and is never reported as a
\* failure.
C17_ReadFailureAborts ==
    /\ [](pkt.cbRead <= 0 =>
             /\ pkt.error = "read"
             /\ pkt.pushed = NullPtr
             /\ ~pkt.responded
             /\ pc["listener"] \in {"c_break", "c_accept", "c_done"}
             /\ pc["listener"] # "c_break" => new_socket.state = "closed")
    /\ [][InterruptedRead =>
             /\ socketServer' = socketServer
             /\ pc'["listener"] = "c_read"
             /\ pkt'.error = "none"]_vars

\* C17 witness: the read for the second header was interrupted, tried again
\* and returned 0 because the peer had closed; the Listener closed the
\* connection and is back at accept.
C17_Witness ==
    /\ pkt.index = 2
    /\ pkt.eintr
    /\ pkt.cbRead = 0
    /\ pkt.error = "read"
    /\ pc["listener"] = "c_accept"
    /\ new_socket.state = "closed"

\* the receive timeout does the same
TimeoutAborts ==
    /\ pkt.cbRead = -1
    /\ pc["listener"] = "c_accept"
    /\ new_socket.state = "closed"
\* the Listener writes a status response
Responds == new_socket'.responses = new_socket.responses + 1

\* the iterations of the do-while that have run to their end on the connection
Completed == IF pc["listener"] = "c_top" THEN pkt.index ELSE pkt.index - 1

\* C18: on a connection the Listener writes exactly one status response for
\* each successfully processed packet, after that packet's frame has been
\* pushed and the read buffer length reset to 0 and before the next packet's
\* header is read; it writes none for a packet that ends in an error.
C18_OneResponsePerPacket ==
    /\ [](new_socket.state = "open" /\ pkt.index > 0 =>
             /\ new_socket.responses = Completed
             /\ pkt.responded <=> pc["listener"] = "c_top"
             /\ pkt.error # "none" => ~pkt.responded)
    /\ [][Responds =>
             /\ pc["listener"] = "c_respond" /\ pc'["listener"] = "c_top"
             /\ socketServer.cbReceived = 0 /\ socketServer'.cbReceived = 0
             /\ pkt.error = "none"
             /\ pkt.pushed # NullPtr => pkt.pushed \in Range(Enqueued(bufferManager))
             /\ lastResponse'.written]_vars

\* C18 witness: two packets were handled on the connection, the second with
\* a frame, and two responses were written.
C18_Witness ==
    /\ pkt.index = 2
    /\ pc["listener"] = "c_top"
    /\ pkt.pushed # NullPtr
    /\ new_socket.responses = 2
\* accept returns a client socket
Accepts == conns' = conns + 1

\* C19: at every moment the Listener has at most one client connection open:
\* accept is never called while a previously accepted client socket is still
\* open, and every accepted socket is closed before the next accept.
C19_OneConnectionAtATime ==
    /\ [](pc["listener"] \in {"c_accept", "c_done"} => new_socket.state # "open")
    /\ [][Accepts => new_socket.state \in {"none", "closed"}]_vars

\* C19 witness: a second connection is open after a packet had arrived on
\* the first one.
C19_Witness ==
    /\ conns = 2
    /\ new_socket.state = "open"
    /\ new_socket.sent = 0
    /\ new_socket.total >= 1
\* the Pacer leaves the statement after PopOldestBuffer
AfterPop == pc["pacer"] = "p_popped" /\ pc'["pacer"] # "p_popped"

\* C20: with burnExtraFrames false, every frame the Pacer pops is passed to
\* DrawFrame exactly once, even when the next head is also already due; the
\* Pacer never discards a popped frame.
C20_EveryPoppedFrameDrawn ==
    /\ [](\A i, j \in 1..Len(drawn) : i # j => drawn[i].id # drawn[j].id)
    /\ [][AfterPop =>
             drawn' = IF local["pacer"].res = NullPtr
                      THEN drawn
                      ELSE Append(drawn, local["pacer"].res)]_vars
    /\ [][drawn' # drawn => AfterPop]_vars

\* C20 witness: the Pacer holds a frame it has popped while the next head of
\* the ring is due as well, after an earlier frame was drawn.
C20_Witness ==
    /\ pc["pacer"] = "p_popped"
    /\ local["pacer"].res # NullPtr
    /\ ~IsEmpty(bufferManager)
    /\ AgeOfOldestBuffer(bufferManager, now) <= 0
    /\ drawn # <<>>

\* -------------------------------------------------------- claims: PaceSpec

\* the frames waiting in the ring
Waiting == Range(Enqueued(bufferManager))

\* C21, as stated: the Pacer never draws a frame whose timestamp was already
\* past when the Listener read it.
C21_PastFramesNeverDrawn ==
    \A i \in 1..Len(drawn) : drawn[i].id \notin late

\* C21, as the code has it: a frame whose timestamp was already past when it
\* was read is pushed like any other, is due from then on, and leaves the ring
\* only by being popped and drawn or by a push onto a full ring.
C21_PastFramesDrawnAtOnce ==
    [][ /\ \A f \in Waiting :
             f.id \in late => (EffectiveTime(f) - now <= 0)
        /\ \A id \in late' \ late :
             \E f \in Range(Enqueued(bufferManager')) : f.id = id
        /\ \A f \in Waiting :
             (f.id \in late /\ f \notin Range(Enqueued(bufferManager')))
                => \/ drawn' = Append(drawn, f)
                   \/ IsFull(bufferManager) /\ nextId' = nextId + 1 ]_vars

\* a frame that was past when read has been drawn
C21_Witness ==
    \E i \in 1..Len(drawn) : drawn[i].id \in late

\* the frame with this id is waiting in the ring
IsWaiting(id) == \E f \in Waiting : f.id = id

\* the frame with this id was passed to DrawFrame
IsDrawn(id) == \E i \in 1..Len(drawn) : drawn[i].id = id

\* C22: unless shutdown is signaled, every frame pushed into the ring
\* eventually leaves it, and it leaves it only by being popped and drawn or by
\* a push onto a full ring; and the Pacer goes to sleep only when no due frame
\* is at the head, so a head that is due when an iteration starts is popped and
\* drawn (or evicted) before any sleep.
C22_EveryFrameDrawnOrEvicted ==
    /\ \A id \in 1..MaxFrames :
          IsWaiting(id) ~> (~IsWaiting(id) \/ interrupt_received)
    /\ [][\A f \in Waiting :
             f \notin Range(Enqueued(bufferManager'))
                => \/ drawn' = Append(drawn, f)
                   \/ IsFull(bufferManager) /\ nextId' = nextId + 1]_vars
    /\ [][(pc["pacer"] # "r_sleep" /\ pc'["pacer"] = "r_sleep")
             => AgeOfOldestBuffer(bufferManager, now) > 0]_vars

\* C22 witness: no shutdown; a frame that was not yet due when it was read has
\* been drawn once its time came, another frame was evicted by capacity, and
\* the ring has been emptied.
C22_Witness ==
    /\ ~interrupt_received
    /\ \E i \in 1..Len(drawn) :
          drawn[i].id \notin late /\ EffectiveTime(drawn[i]) = now /\ now > 0
    /\ \E id \in 1..nextId : ~IsDrawn(id) /\ ~IsWaiting(id)
    /\ Waiting = {}

\* ------------------------------------------------- claims: Spec, the sleep

\* the Pacer leaves the statement that computes the delay
AfterDelay == pc["pacer"] = "p_delay" /\ pc'["pacer"] # "p_delay"

\* C23: with age the value AgeOfOldestBuffer() returned, the Pacer sleeps
\* exactly when min(40000, age) > 0 and then for min(40000, age) microseconds,
\* which is more than 0 and at most 40,000, and is 40,000 when the age is the
\* sentinel of the empty ring; otherwise it does not sleep.
C23_SleepIsBounded ==
    [][AfterDelay =>
         LET age == local["pacer"].res
             delay == IF age < kMaximumWait THEN age ELSE kMaximumWait
             slept == local'["pacer"].wake - now
         IN  /\ (pc'["pacer"] = "p_sleep") <=> (delay > 0)
             /\ (pc'["pacer"] # "p_sleep") => (pc'["pacer"] = "p_loop")
             /\ (pc'["pacer"] = "p_sleep")
                   => /\ slept = delay
                      /\ slept > 0
                      /\ slept <= 40000
                      /\ (age = MAXDOUBLE => slept = 40000)]_vars

\* C23 witness: after drawing a frame the Pacer found the ring empty and has
\* just gone to sleep for the full 40,000 microseconds.
C23_Witness ==
    /\ pc["pacer"] = "p_sleep"
    /\ IsEmpty(bufferManager)
    /\ drawn # <<>>
    /\ local["pacer"].wake = now + 40000

\* ---------------------------------------------- claims: PaceSpec, shutdown

\* RunDrawLoop returns once the flag is set (the ring runs out of due frames,
\* a sleep is at most 40,000 microseconds, and the outer test follows)
PacerLoopExits == interrupt_received ~> (pc["pacer"] = "r_done")

\* C24, as stated: once the shutdown flag is set, both RunDrawLoop and
\* ProcessIncomingConnectionsLoop eventually return, whether or not a client
\* is connected.
C24_BothLoopsExit ==
    interrupt_received ~> (pc["pacer"] = "r_done" /\ pc["listener"] = "a_done")

\* ------------------------------------------- claims: BufferSpec, empty ring

\* the call just completed
LastCall == calls[Len(calls)]

\* C25: PopOldestBuffer on an empty manager returns std::nullopt and leaves
\* both indexes and every slot as they were.
C25_PopOnEmptyChangesNothing ==
    [][(/\ bufferManager.iHeadIndex = bufferManager.iTailIndex
        /\ Len(calls') = Len(calls) + 1
        /\ calls'[Len(calls')].op = "pop")
          => /\ calls'[Len(calls')].result = NullPtr
             /\ bufferManager'.iHeadIndex = bufferManager.iHeadIndex
             /\ bufferManager'.iTailIndex = bufferManager.iTailIndex
             /\ bufferManager'.aptrBuffers = bufferManager.aptrBuffers]_vars

\* C25 witness: a ring that was filled and emptied again, its indexes away
\* from 0, has just been popped once more and returned nothing.
C25_Witness ==
    /\ Len(calls) >= 3
    /\ LastCall.op = "pop"
    /\ LastCall.result = NullPtr
    /\ LastCall.sizeBefore = 0
    /\ Len(Popped) >= 1
    /\ bufferManager.iTailIndex # 0

\* ----------------------------------------------- claims: Spec, the age calls

\* thread t is about to return from this age call
Returning(t, op) == pc[t] = "unlock" /\ local[t].op = op

\* the enqueued frame that was pushed last
NewestEnqueued ==
    CHOOSE f \in Waiting : \A g \in Waiting : g.id <= f.id

\* C26: AgeOfOldestBuffer and AgeOfNewestBuffer return the sentinel exactly
\* when the ring is empty, and otherwise the effective time of the frame the
\* next pop would return, respectively of the enqueued frame pushed last, minus
\* the clock reading of the call; the Pacer's pop, made only after an age <= 0,
\* never finds the ring empty, and the Pacer draws only frames.
C26_AgesOfEmptyAndNonEmpty ==
    /\ \A t \in Threads :
          /\ (Returning(t, "oldest") \/ Returning(t, "newest"))
                => ((local[t].res = MAXDOUBLE) <=> (Size(bufferManager) = 0))
          /\ (Returning(t, "oldest") /\ Size(bufferManager) # 0)
                => local[t].res = EffectiveTime(Enqueued(bufferManager)[1]) - local[t].t
          /\ (Returning(t, "newest") /\ Size(bufferManager) # 0)
                => local[t].res = EffectiveTime(NewestEnqueued) - local[t].t
    /\ (pc["pacer"] = "p_test" /\ local["pacer"].res <= 0) => Size(bufferManager) # 0
    /\ Returning("pacer", "pop") => local["pacer"].res # NullPtr
    /\ \A i \in 1..Len(drawn) : drawn[i] # NullPtr

\* C26 witness: the Pacer has drawn what there was and its next age call is
\* returning the sentinel from the empty ring.
C26_Witness ==
    /\ Returning("pacer", "oldest")
    /\ local["pacer"].res = MAXDOUBLE
    /\ IsEmpty(bufferManager)
    /\ drawn # <<>>

\* ----------------------------------------------- claims: DrawSpec, the swap

\* C27, as stated: once DrawFrame has set all width * height pixels of a
\* frame it has requested exactly one VSync swap for it, so after every
\* completed DrawFrame the swaps requested are as many as the frames drawn.
C27_OneSwapPerFrame ==
    (drawn # <<>> /\ pc["pacer"] \in {"d_loop", "d_test", "d_sleep", "d_done"})
        => matrix.swaps = Len(drawn)

\* -------------------------------------------------------- claims: WireSpec

\* the packet CreateFromWire was given, B
WireBytes == SubSeq(socketServer.pBuffer, 1, loop.payloadLength)

\* the little-endian value of the n bytes of B from offset off on
RECURSIVE LittleEndian(_, _, _)
LittleEndian(B, off, n) ==
    IF n = 0 THEN 0 ELSE B[off + 1] + 256 * LittleEndian(B, off + 1, n - 1)

\* C28: for a valid standard PIXELDATA64 packet B with pixel_count N,
\* CreateFromWire returns a frame of exactly N pixels whose colour bytes, in
\* order, are B[24 .. 24 + 3N), whose seconds are the little-endian 64 bit
\* value at bytes 8..15 and whose micros are the one at bytes 16..23.
C28_CreateFromWireByteExact ==
    pc["listener"] = "w_done" =>
        LET B == WireBytes
            N == LittleEndian(B, 4, 4)
        IN  /\ pkt.error = "none"
            /\ pkt.pushed # NullPtr
            /\ PixelCount(pkt.pushed) = N
            /\ Len(pkt.pushed.leds) = 3 * N
            /\ \A i \in 1..(3 * N) : pkt.pushed.leds[i] = B[24 + i]
            /\ pkt.pushed.seconds = LittleEndian(B, 8, 8)
            /\ pkt.pushed.micros = LittleEndian(B, 16, 8)

\* C28 witness: a packet with a pixel for every LED, seconds that fill four
\* bytes and micros that fill three has been parsed.
C28_Witness ==
    /\ pc["listener"] = "w_done"
    /\ pkt.pushed # NullPtr
    /\ PixelCount(pkt.pushed) = MaxLEDs
    /\ pkt.pushed.seconds = 1762041600
    /\ pkt.pushed.micros = 999999
    /\ pkt.pushed.leds[1] # pkt.pushed.leds[2]

\* ------------------------------------------ claims: ListenerSpec, inflating

\* C29, as stated: DecompressBuffer returns for every compressed body and
\* every declared expanded size: the Listener is never held inside its
\* do-while, and it goes on to ProcessIncomingData only with a payload that
\* inflated to exactly the expanded size.
C29_DecompressTerminates ==
    /\ pc["listener"] \notin {"c_spin", "c_overread"}
    /\ (pc["listener"] = "c_process" /\ loop.payload = "abOutputBuffer")
          => Inflate(Bytes(socketServer.pBuffer, COMPRESSED_HEADER_SIZE, loop.compressedSize.lo),
                     loop.expandedSize).ret = "Z_STREAM_END"

\* C30, as stated: DecompressBuffer is called only when the read buffer holds
\* the 16 header bytes and all compressed_size bytes of the body, their total
\* being at most the maximum packet size; and _cbReceived never exceeds the
\* maximum packet size.
C30_InputInsideReceived ==
    /\ socketServer.cbReceived <= MaximumPacketSize
    /\ pc["listener"] = "c_decompress"
          => /\ socketServer.cbReceived >= COMPRESSED_HEADER_SIZE
             /\ ~Exceeds(loop.compressedSize, socketServer.cbReceived - COMPRESSED_HEADER_SIZE)

\* ----------------------------------- claims: ListenerSpec, expanded payloads

\* the packet sent as `name` is a compressed one that inflates to its declared
\* size, and what it inflates to is shorter than a standard header or does not
\* begin with the command PIXELDATA64
ExpandsToOtherCommand(name) ==
    LET P == Packets[name]
        compressedSize == DWORDFromMemory(P, 4)
        expandedSize == DWORDFromMemory(P, 8)
        r == Inflate(Bytes(P, COMPRESSED_HEADER_SIZE, Len(P) - COMPRESSED_HEADER_SIZE),
                     expandedSize.lo)
    IN  /\ Bytes(P, 0, 4) = TagBytes
        /\ compressedSize = DWORD(Len(P) - COMPRESSED_HEADER_SIZE)
        /\ expandedSize.hi = 0
        /\ r.ret = "Z_STREAM_END"
        /\ Len(r.out) = expandedSize.lo
        /\ \/ Len(r.out) < STANDARD_DATA_HEADER_SIZE
           \/ r.out[1] + 256 * r.out[2] # WIFI_COMMAND_PIXELDATA64

\* C31, as stated: a compressed packet whose expanded payload is shorter than
\* 24 bytes or does not begin with command 3 ends the connection: no frame is
\* pushed and no status response is written.
C31_OtherExpandedCommandAborts ==
    \A name \in DOMAIN Packets :
        (ExpandsToOtherCommand(name) /\ FirstPacketDone(name))
            => /\ pkt.error # "none"
               /\ pkt.pushed = NullPtr
               /\ ~pkt.responded

\* ---------------------------------------------------- claims: Spec, the lock

\* where a thread is between the lock_guard of an operation and its return
InCriticalSection ==
    { "isempty", "isempty_in", "pop_move", "pop_advance", "oldest_read", "newest_read",
      "size_body", "push_full", "push_store", "push_advance", "unlock" }

\* C32, as stated: no operation acquires the lock while its thread already
\* holds it: the hold count never exceeds 1.
C32_LockNeverReentered == mutex.count <= 1

\* C32, as the code has it: _mutex is a recursive mutex.  PopOldestBuffer,
\* AgeOfOldestBuffer and AgeOfNewestBuffer call IsEmpty() from inside their
\* critical section, which locks it a second time; no other operation is
\* called with the lock held, so the hold count is 2 only inside that IsEmpty()
\* and never more.  A thread inside an operation owns the lock, and a thread
\* outside one does not.
C32_LockReenteredByIsEmptyOnly ==
    /\ mutex.count \in 0..2
    /\ (mutex.count = 0) <=> (mutex.owner = "none")
    /\ mutex.count = 2 =>
          /\ pc[mutex.owner] = "isempty_in"
          /\ local[mutex.owner].op \in {"pop", "oldest", "newest"}
    /\ \A t \in Threads :
          /\ pc[t] \in InCriticalSection => mutex.owner = t
          /\ pc[t] \notin InCriticalSection => mutex.owner # t
          /\ pc[t] = "isempty_in" => mutex.count = 2

\* C32 witness: the Pacer is inside the IsEmpty() its PopOldestBuffer calls,
\* holding the lock twice, while the Listener waits for it with a frame to push.
C32_Witness ==
    /\ mutex = [owner |-> "pacer", count |-> 2]
    /\ local["pacer"].op = "pop"
    /\ pc["listener"] = "lock"
    /\ local["listener"].op = "push"

\* -------------------------------------- claims: ListenerSpec, packet framing

\* the length of the packet whose header is in the read buffer: 16 bytes and
\* the compressed size behind the tag, 24 bytes and three per pixel otherwise
OwnLength(pBuffer) ==
    IF Bytes(pBuffer, 0, 4) = TagBytes
    THEN COMPRESSED_HEADER_SIZE + pBuffer[5] + 256 * pBuffer[6]
    ELSE STANDARD_DATA_HEADER_SIZE + 3 * (pBuffer[5] + 256 * pBuffer[6])

\* ProcessIncomingData has returned true for the packet in hand
ProcessedSuccessfully == pc["listener"] = "c_process" /\ pc'["listener"] = "c_respond"

\* C33: the Listener starts reading every packet header with _cbReceived = 0;
\* when a packet has been processed successfully the bytes taken from the
\* stream for it are exactly its own length; and what is then left on the
\* stream is nothing or the whole of the packet that follows.
C33_PacketsConsumedExactly ==
    /\ [](pc["listener"] = "c_top" => socketServer.cbReceived = 0)
    /\ []((pc["listener"] = "c_read" /\ loop.ret = "c_classify" /\ pkt.reads = 0)
             => socketServer.cbReceived = 0)
    /\ [][ProcessedSuccessfully =>
             /\ socketServer.pBuffer[7] = 0 /\ socketServer.pBuffer[8] = 0
             /\ socketServer.cbReceived = OwnLength(socketServer.pBuffer)
             /\ socketServer'.cbReceived = 0]_vars
    /\ []((pc["listener"] \in {"c_respond", "c_top"} /\ pkt.error = "none")
             => \/ new_socket.wire = <<>>
                \/ \E name \in DOMAIN Packets : new_socket.wire = Packets[name])


\* ------------------------------------------- claims: Spec, the status response

\* C34, as stated: in every status response written, the oldest-age and the
\* newest-age field hold the sentinel of the empty buffer exactly when the field
\* that carries Size() is 0.
C34_ResponseOfOneState ==
    lastResponse.written
        => /\ (lastResponse.oldestPacket = MAXDOUBLE) <=> (lastResponse.bufferPos = 0)
           /\ (lastResponse.newestPacket = MAXDOUBLE) <=> (lastResponse.bufferPos = 0)


\* ------------------------------------------- claims: ExitSpec, the teardown

\* main has closed the server socket and destroyed socketServer and
\* bufferManager, and the process has not ended yet
TornDown == pc["pacer"] = "m_destroyed"

\* C35, as stated: once main has torn down, the Listener takes no step that
\* touches the FrameBuffer, the scratch buffers or the server socket: accept()
\* does not return a connection (the test of _pBuffer follows it), no packet is
\* read into _pBuffer and pushed, and no ResetReadBuffer() runs.
C35_NoAccessAfterTeardown ==
    [][TornDown => ~(PaceAccept \/ PaceArrive \/ PaceDisconnect)]_vars


\* ------------------------------------------- claims: BufferSpec, the ring

\* the slots from the tail up to the head, the head excluded, in ring order
Occupied(m) ==
    { (m.iTailIndex + k) % m.cMaxBuffers :
          k \in 0..(((m.iHeadIndex + m.cMaxBuffers - m.iTailIndex) % m.cMaxBuffers) - 1) }

\* C36: the head and the tail index are inside [0, capacity); Size() is
\* (head - tail) mod capacity; every slot from the tail up to the head holds a
\* frame; so on a buffer that is not empty the slot AgeOfOldestBuffer reads,
\* the slot AgeOfNewestBuffer reads and the slot PopOldestBuffer moves out
\* hold a frame.
C36_RingInvariant ==
    LET m == bufferManager
        newestIndex == IF m.iHeadIndex = 0 THEN m.cMaxBuffers - 1 ELSE m.iHeadIndex - 1
    IN  /\ m.iHeadIndex \in 0..(m.cMaxBuffers - 1)
        /\ m.iTailIndex \in 0..(m.cMaxBuffers - 1)
        /\ Size(m) = (m.iHeadIndex + m.cMaxBuffers - m.iTailIndex) % m.cMaxBuffers
        /\ \A i \in Occupied(m) : m.aptrBuffers[i] # NullPtr
        /\ m.iHeadIndex # m.iTailIndex
              => /\ m.aptrBuffers[m.iTailIndex] # NullPtr
                 /\ m.aptrBuffers[newestIndex] # NullPtr
                 /\ PopOldestBuffer(m).result # NullPtr

\* C36 witness: pushes have wrapped the head around the end of the array and
\* gone over the oldest frame, a pop has emptied a slot, and frames are held.
C36_Witness ==
    /\ bufferManager.iHeadIndex < bufferManager.iTailIndex
    /\ \E i \in DOMAIN bufferManager.aptrBuffers : bufferManager.aptrBuffers[i] = NullPtr
    /\ Cardinality(Occupied(bufferManager)) >= 2
    /\ \E i \in 1..Len(calls) : calls[i].op = "push" /\ calls[i].dropped # NullPtr
    /\ \E i \in 1..Len(calls) : calls[i].op = "pop" /\ calls[i].result # NullPtr

====
